---- MODULE Spec2Model ----
(***************************************************************************)
(* MF Compass sync service: the scoring engine (scoring-utils), the peer   *)
(* group normalizer and the seed / daily-update orchestration around them. *)
(*                                                                         *)
(* Number representation.  JavaScript numbers are modelled by exact        *)
(* arithmetic:                                                             *)
(*   - a fund return is an integer (percent);                              *)
(*   - a category average and a raw weighted score are rationals <<n, d>>  *)
(*     with d > 0, in lowest terms;                                        *)
(*   - a total_score, which the code always rounds to 2 decimals, is an    *)
(*     integer number of hundredths (7500 is 75.00);                       *)
(*   - base weights are integers in units of 1/10000 (0.3499 is 3499).     *)
(* NaN is the rational <<0, 0>>.  A JS string in a return field is         *)
(* <<"string", chars>>, chars being the sequence of its characters.        *)
(* A nullable value (SQL NULL / JS null) is a sequence of length 0 or 1:   *)
(* Null is <<>>, the number v is <<v>>.  A nullable string (fund_type,     *)
(* fund_category) uses "" for null: both are falsy in JavaScript and the   *)
(* code only ever tests them for truthiness.                               *)
(***************************************************************************)
EXTENDS Integers, Sequences, FiniteSets, TLC

VARIABLES
  \* normalizeFundScores applied to a list, then to its own output
  fundsWithScores,   \* the list, mutated in place by normalizeFundScores
  rawInput,          \* the list as it was before the first application
  firstOutput,       \* the list as it was after the first application
  passes,            \* number of applications so far
  categories,        \* the groups built by the last application: key -> positions
  \* calculateFundScore applied to one fund
  fundData,          \* the fund record given to calculateFundScore
  categoryAverages,  \* Null or <<map>>: category name -> period averages
  scoreResult,       \* Null before the call, <<record>> after it
  \* calculateFundScore applied to the funds of a list, one after the other
  batchFunds,        \* the fund records to score
  batchScores,       \* the total_score obtained for each fund scored so far
  \* the category averages aggregator applied to one API response
  responseData,      \* response.data of fund_categories.json
  processedCategories, \* Null before the call, <<rows>> after it
  \* applyAdvancedFilters applied to a list of fund details
  fundDetails,       \* the fund details given to applyAdvancedFilters
  filterIndex,       \* number of funds the loop has gone through
  passedFunds,       \* the local filteredFunds: the funds pushed so far
  filterStats,       \* the tallies of the loop
  \* calculateOverallWeightedScore (seeder.js) applied to one fund's returns
  legacyReturns,     \* returns: period -> Null or <<value>>
  legacyResult,      \* Null before the call, <<record>> after it
  \* the seed (seed.js) and daily update (update.js) runs against the store
  revision,          \* which revision of update.js runs: "current", "earlier"
  pc,                \* position of the running operation, "idle" between runs
  runs,              \* number of runs started so far
  tablesExist,       \* the funds and category_averages tables were created
  funds,             \* table funds: kuvera_code -> row
  category_averages, \* table category_averages: its rows, in insertion order
  filteredFunds,     \* seedDatabase: the fund details that passed the filters
  activeFunds,       \* dailyUpdate: the rows read by getActiveFundsFromDatabase
  batchStart,        \* fetchAndUpdateLatestData: the loop index i
  updatedFunds,      \* dailyUpdate: codes of the funds written with new data
  skippedFunds,      \* dailyUpdate: skipped count
  failedFunds,       \* dailyUpdate: failed count
  lastNormalization, \* Null, or <<what the last normalizeFundScores call was given>>
  lastCategoryWrite, \* Null, or <<the last transaction on category_averages>>
  batchLog,          \* the batch transactions of the fetch loop under way
  lastFundWrites,    \* Null, or <<what failed, per fund, in the per-fund loop just run>>
  lastRun,           \* Null, or <<the run under way or just over: its kind, the
                     \* store it started on, and how far it got>>
  operation,         \* "none", or the script running or just over: seedDatabase, dailyUpdate
  stage,             \* the position, in the script, of the function that holds the client
  clientStep,        \* where that function is: connect, set_time_zone, try, catch, ...
  thrown,            \* an error is on its way out of the function or the script
  clients,           \* the clients pool.connect() handed out, with their release counts
  poolEnded,         \* pool.end() was called
  settled,           \* "pending", or how the promise of the script settled
  operationsRun      \* the scripts started so far

normVars  == <<fundsWithScores, rawInput, firstOutput, passes, categories>>
scoreVars == <<fundData, categoryAverages, scoreResult>>
batchVars == <<batchFunds, batchScores>>
aggVars   == <<responseData, processedCategories>>
filterVars == <<fundDetails, filterIndex, passedFunds, filterStats>>
legacyVars == <<legacyReturns, legacyResult>>
clientVars == <<operation, stage, clientStep, thrown, clients, poolEnded, settled,
                operationsRun>>
auxVars   == <<filterVars, legacyVars, clientVars>>
unitVars  == <<scoreVars, batchVars, aggVars, auxVars>>
storeVars == <<tablesExist, funds, category_averages>>
runVars   == <<revision, pc, runs, filteredFunds, activeFunds, batchStart,
               updatedFunds, skippedFunds, failedFunds, lastNormalization,
               lastCategoryWrite, batchLog, lastFundWrites, lastRun>>
syncVars  == <<storeVars, runVars>>
vars      == <<normVars, unitVars, syncVars>>

----------------------------------------------------------------------------
(* Nullable values and JS number helpers                                   *)

Null == <<>>

Num(v) == <<v>>

IsNull(x) == x = Null

\* ToNumber coercion applied by Math.max, Math.min and the - operator
ToNumber(x) == IF IsNull(x) THEN 0 ELSE x[1]

Abs(x) == IF x < 0 THEN -x ELSE x

MaxOf(S) == CHOOSE m \in S : \A x \in S : x <= m

MinOf(S) == CHOOSE m \in S : \A x \in S : m <= x

\* Math.round(n / d) for d > 0: nearest integer, ties toward +infinity
MathRound(n, d) == (2 * n + d) \div (2 * d)

----------------------------------------------------------------------------
(* Exact rationals <<n, d>>, d > 0, kept in lowest terms; NaN is <<0, 0>>  *)
(* and every operation on NaN gives NaN                                    *)

NaN == <<0, 0>>

RECURSIVE GCD(_, _)
GCD(a, b) == IF b = 0 THEN a ELSE GCD(b, a % b)

RNorm(r) ==
  IF r[2] = 0 THEN NaN
  ELSE LET g == GCD(Abs(r[1]), r[2]) IN <<r[1] \div g, r[2] \div g>>

RAdd(a, b) ==
  IF a[2] = 0 \/ b[2] = 0 THEN NaN
  ELSE LET g == GCD(a[2], b[2])
           l == (a[2] \div g) * b[2]
       IN  RNorm(<<a[1] * (l \div a[2]) + b[1] * (l \div b[2]), l>>)

RMul(a, b) == RNorm(<<a[1] * b[1], a[2] * b[2]>>)

RSub(a, b) == RAdd(a, <<-b[1], b[2]>>)

\* a / b for b > 0
RDiv(a, b) == RNorm(<<a[1] * b[2], a[2] * b[1]>>)

RAbs(a) == <<Abs(a[1]), a[2]>>

RLess(a, b) == a[1] * b[2] < b[1] * a[2]

RMax(a, b) == IF RLess(a, b) THEN b ELSE a

----------------------------------------------------------------------------
(* Return values as the scoring code receives them: null, a number, or a   *)
(* string, with the two conversions the code applies to them               *)

Str(chars) == <<"string", chars>>

IsString(v) == Len(v) = 2

IsDigit(c) == c \in {"0", "1", "2", "3", "4", "5", "6", "7", "8", "9"}

DigitValue(c) ==
  CASE c = "0" -> 0 [] c = "1" -> 1 [] c = "2" -> 2 [] c = "3" -> 3 [] c = "4" -> 4
    [] c = "5" -> 5 [] c = "6" -> 6 [] c = "7" -> 7 [] c = "8" -> 8 [] c = "9" -> 9

\* the characters of s after its leading white space
RECURSIVE TrimStart(_)
TrimStart(s) == IF s # <<>> /\ Head(s) = " " THEN TrimStart(Tail(s)) ELSE s

RECURSIVE TrimEnd(_)
TrimEnd(s) ==
  IF s # <<>> /\ s[Len(s)] = " " THEN TrimEnd(SubSeq(s, 1, Len(s) - 1)) ELSE s

\* the length of the longest prefix of s made of digits
RECURSIVE DigitPrefix(_)
DigitPrefix(s) ==
  IF s # <<>> /\ IsDigit(Head(s)) THEN 1 + DigitPrefix(Tail(s)) ELSE 0

\* the decimal value of the digits s[1..k]
RECURSIVE DigitsValue(_, _)
DigitsValue(s, k) ==
  IF k = 0 THEN 0 ELSE 10 * DigitsValue(s, k - 1) + DigitValue(s[k])

HasSign(s) == s # <<>> /\ Head(s) \in {"-", "+"}

Unsigned(s) == IF HasSign(s) THEN Tail(s) ELSE s

Signed(s, n) == IF s # <<>> /\ Head(s) = "-" THEN -n ELSE n

\* Number(s), the conversion behind isNaN(s): white space is trimmed, the
\* empty string is 0, a signed integer literal is its value, the rest NaN
StringToNumber(s) ==
  LET t == TrimEnd(TrimStart(s))
      body == Unsigned(t)
  IN  IF t = <<>> THEN <<0, 1>>
      ELSE IF body # <<>> /\ DigitPrefix(body) = Len(body)
           THEN <<Signed(t, DigitsValue(body, Len(body))), 1>>
           ELSE NaN

\* parseFloat(s): leading white space is skipped and the longest prefix that
\* is a signed integer literal is converted; NaN when there is none
ParseFloatString(s) ==
  LET t == TrimStart(s)
      body == Unsigned(t)
      k == DigitPrefix(body)
  IN  IF k = 0 THEN NaN ELSE <<Signed(t, DigitsValue(body, k)), 1>>

\* isNaN(v) for a value that is not null
IsNaN(v) == IsString(v) /\ StringToNumber(v[2]) = NaN

\* parseFloat(v) for a value that is not null
ParseFloat(v) == IF IsString(v) THEN ParseFloatString(v[2]) ELSE <<v[1], 1>>

----------------------------------------------------------------------------
(* ScoringUtils.calculateFundScore                                         *)

\* the return periods, in the order the code examines them
Periods == <<"returns_1y", "returns_3y", "returns_5y", "returns_1w">>

PeriodSet == {Periods[k] : k \in DOMAIN Periods}

\* this.baseWeights, in units of 1/10000
baseWeights ==
  [returns_1y |-> 3499, returns_3y |-> 3999, returns_5y |-> 2499, returns_1w |-> 3]

\* v !== null && v !== undefined && !isNaN(v)
Available(v) == ~IsNull(v) /\ ~IsNaN(v)

\* a slip that penalizes a negative outperformance instead of a negative
\* fund return
robustOutperformanceLag(fund, cat) ==
  IF IsNull(cat) THEN <<0, 1>>
  ELSE LET denom   == RMax(RAbs(cat[1]), <<1, 1>>)
           outperf == RDiv(RSub(fund, cat[1]), denom)
       IN  IF outperf[1] < 0 THEN RMul(outperf, <<3, 2>>) ELSE outperf

\* robustOutperformance(fund, cat): (fund - cat) / max(|cat|, 1), times the
\* penaltyFactor 1.5 when fund < 0
robustOutperformance(fund, cat) ==
  IF IsNull(cat) THEN <<0, 1>>
  ELSE LET denom   == RMax(RAbs(cat[1]), <<1, 1>>)
           outperf == RDiv(RSub(fund, cat[1]), denom)
       IN  IF fund[1] < 0 THEN RMul(outperf, <<3, 2>>) ELSE outperf

\* !categoryAverages, then !categoryAverages[fund_category]: TRUE when the
\* fund is scored against its category average
HasCategoryAvg(fund, catAverages) ==
  /\ ~IsNull(catAverages)
  /\ fund.fund_category \in DOMAIN catAverages[1]

\* a slip that tests the fund return only, leaving a missing category
\* average to robustOutperformance
OutperformanceReturnsFundOnly(fund, categoryAvg) ==
  [p \in PeriodSet |->
     IF Available(fund[p])
     THEN Num(robustOutperformance(ParseFloat(fund[p]), categoryAvg[p]))
     ELSE Null]

\* outperformanceReturns: the value of each usable period, Null otherwise
OutperformanceReturns(fund, categoryAvg) ==
  [p \in PeriodSet |->
     IF Available(fund[p]) /\ Available(categoryAvg[p])
     THEN Num(robustOutperformance(ParseFloat(fund[p]), categoryAvg[p]))
     ELSE Null]

\* availableReturns: parseFloat of each available return, Null otherwise
AvailableReturns(fund) ==
  [p \in PeriodSet |->
     IF Available(fund[p]) THEN Num(ParseFloat(fund[p])) ELSE Null]

\* totalAvailableWeight: the base weights of the periods that have a value
RECURSIVE SumWeights(_, _)
SumWeights(values, k) ==
  IF k = 0 THEN 0
  ELSE SumWeights(values, k - 1)
       + (IF IsNull(values[Periods[k]]) THEN 0 ELSE baseWeights[Periods[k]])

\* a slip that divides by the sum of all base weights
FullWeight(values) ==
  baseWeights.returns_1y + baseWeights.returns_3y
    + baseWeights.returns_5y + baseWeights.returns_1w

TotalAvailableWeight(values) == SumWeights(values, Len(Periods))

\* totalScore += value * (baseWeights[key] / totalAvailableWeight)
RECURSIVE SumScore(_, _, _)
SumScore(values, total, k) ==
  IF k = 0 THEN <<0, 1>>
  ELSE LET key == Periods[k]
           rest == SumScore(values, total, k - 1)
       IN  IF IsNull(values[key]) THEN rest
           ELSE RAdd(rest, RMul(values[key][1], <<baseWeights[key], total>>))

\* the weighted sum common to calculateRawScore and
\* calculateAbsoluteReturnsScore: 0 when no period has a value
WeightedScore(values) ==
  LET totalAvailableWeight == TotalAvailableWeight(values)
  IN  IF totalAvailableWeight = 0 THEN <<0, 1>>
      ELSE SumScore(values, totalAvailableWeight, Len(Periods))

calculateAbsoluteReturnsScore(fund) == WeightedScore(AvailableReturns(fund))

\* the per-period values calculateRawScore works with
PeriodValues(fund, catAverages) ==
  IF HasCategoryAvg(fund, catAverages)
  THEN OutperformanceReturns(fund, catAverages[1][fund.fund_category])
  ELSE AvailableReturns(fund)

calculateRawScore(fund, catAverages) ==
  IF HasCategoryAvg(fund, catAverages)
  THEN WeightedScore(OutperformanceReturns(fund, catAverages[1][fund.fund_category]))
  ELSE calculateAbsoluteReturnsScore(fund)

\* Math.round(rawScore * 100) / 100, in hundredths
RoundScore(rawScore) == MathRound(100 * rawScore[1], rawScore[2])

\* total_score of the result: NaN stays NaN through Math.round
TotalScore(rawScore) ==
  IF rawScore = NaN THEN NaN ELSE Num(RoundScore(rawScore))

\* a slip that scores a fund without usable period as 50
calculateFundScoreDefault(fund, catAverages) ==
  IF TotalAvailableWeight(PeriodValues(fund, catAverages)) = 0 THEN Num(5000)
  ELSE TotalScore(calculateRawScore(fund, catAverages))

\* calculateFundScore(...).total_score
calculateFundScore(fund, catAverages) ==
  TotalScore(calculateRawScore(fund, catAverages))

----------------------------------------------------------------------------
(* ScoringUtils.normalizeFundScores                                        *)

\* fund_type.toLowerCase().includes('equity') over the fund types in use
IncludesEquity(fundType) == fundType \in {"Equity"}

\* a slip that forgets the fallback buckets
CategoryKeyNoFallback(fund) == fund.fund_category

CategoryKey(fund) ==
  IF fund.fund_type # "" /\ IncludesEquity(fund.fund_type)
  THEN (IF fund.fund_category # "" THEN fund.fund_category ELSE "equity_other")
  ELSE (IF fund.fund_category # "" THEN fund.fund_category ELSE "unknown")

\* categories[categoryKey]: the positions of the fundList pushed under the key
CategoryFunds(fundList, categoryKey) ==
  {i \in DOMAIN fundList : CategoryKey(fundList[i]) = categoryKey}

\* categories: every key in use with the positions pushed under it
Categories(fundList) ==
  [categoryKey \in {CategoryKey(fundList[i]) : i \in DOMAIN fundList} |->
     CategoryFunds(fundList, categoryKey)]

\* a slip that takes the highest score of the whole list
GroupMaxScoreOfList(fundList, categoryKey) ==
  MaxOf({ToNumber(fundList[i].total_score) : i \in DOMAIN fundList})

GroupMaxScore(fundList, categoryKey) ==
  MaxOf({ToNumber(fundList[i].total_score) : i \in CategoryFunds(fundList, categoryKey)})

GroupMinScore(fundList, categoryKey) ==
  MinOf({ToNumber(fundList[i].total_score) : i \in CategoryFunds(fundList, categoryKey)})

\* Edge case 1 (maxScore <= 0): fund.total_score = 50
EdgeCase1Score == 5000

\* a slip that places tied fundList at the lower bound
EdgeCase2ScoreLow == EdgeCase1Score

\* Edge case 2 (maxScore === minScore): fund.total_score = 100
EdgeCase2Score == 10000

\* a slip that divides by max instead of (max - min)
StandardScoreDivMax(score, minScore, maxScore) ==
  MathRound(5000 * (score - minScore) + 5000 * maxScore, maxScore)

\* a slip that truncates (Math.floor) instead of rounding
StandardScoreFloor(score, minScore, maxScore) ==
  (5000 * (score - minScore) + 5000 * (maxScore - minScore))
     \div (maxScore - minScore)

\* a slip that forgets the + 50 offset
StandardScoreNoOffset(score, minScore, maxScore) ==
  MathRound(5000 * (score - minScore), maxScore - minScore)

\* Standard case: ((score - min) / (max - min)) * 50 + 50, Math.round(x * 100) / 100
StandardScore(score, minScore, maxScore) ==
  MathRound(5000 * (score - minScore) + 5000 * (maxScore - minScore),
            maxScore - minScore)

\* a slip that tests maxScore < 0 in edge case 1
NormalizedScoreStrict(score, minScore, maxScore) ==
  IF maxScore < 0 THEN EdgeCase1Score
  ELSE IF maxScore = minScore THEN EdgeCase2Score
  ELSE StandardScore(ToNumber(score), minScore, maxScore)

NormalizedScore(score, minScore, maxScore) ==
  IF maxScore <= 0 THEN EdgeCase1Score
  ELSE IF maxScore = minScore THEN EdgeCase2Score
  ELSE StandardScore(ToNumber(score), minScore, maxScore)

normalizeFundScores(fundList) ==
  [i \in DOMAIN fundList |->
    LET categoryKey == CategoryKey(fundList[i])
        maxScore    == GroupMaxScore(fundList, categoryKey)
        minScore    == GroupMinScore(fundList, categoryKey)
    IN  [fundList[i] EXCEPT
           !.total_score = Num(NormalizedScore(fundList[i].total_score, minScore, maxScore))]]

----------------------------------------------------------------------------
(* Specification SpecNormalize: normalizeFundScores on bounded lists       *)

MaxFunds == 3

MaxPasses == 2

\* (fund_type, fund_category) pairs of the funds
FundKinds ==
  { <<"Equity", "Large Cap Fund">>, <<"Equity", "">>,
    <<"Hybrid", "Aggressive Hybrid Fund">>, <<"Hybrid", "Multi Asset Allocation">>,
    <<"", "">> }

\* total_score values in hundredths, Null for a row without score
ScoreValues == {Null, Num(-100), Num(0), Num(200)}

FundRows ==
  { [fund_type |-> k[1], fund_category |-> k[2], total_score |-> s] :
      k \in FundKinds, s \in ScoreValues }

FundLists == UNION { [1..n -> FundRows] : n \in 1..MaxFunds }

SyncIdle ==
  /\ revision = "current"
  /\ pc = "idle"
  /\ runs = 0
  /\ tablesExist = FALSE
  /\ funds = <<>>
  /\ category_averages = <<>>
  /\ filteredFunds = <<>>
  /\ activeFunds = <<>>
  /\ batchStart = 0
  /\ updatedFunds = <<>>
  /\ skippedFunds = 0
  /\ failedFunds = 0
  /\ lastNormalization = Null
  /\ lastCategoryWrite = Null
  /\ batchLog = <<>>
  /\ lastFundWrites = Null
  /\ lastRun = Null

AggregateIdle ==
  /\ responseData = <<>>
  /\ processedCategories = Null

FilterIdle ==
  /\ fundDetails = <<>>
  /\ filterIndex = 0
  /\ passedFunds = <<>>
  /\ filterStats = <<>>

LegacyIdle ==
  /\ legacyReturns = <<>>
  /\ legacyResult = Null

ClientsIdle ==
  /\ operation = "none"
  /\ stage = 0
  /\ clientStep = "idle"
  /\ thrown = FALSE
  /\ clients = <<>>
  /\ poolEnded = FALSE
  /\ settled = "pending"
  /\ operationsRun = 0

AuxIdle == FilterIdle /\ LegacyIdle /\ ClientsIdle

ScoreIdle ==
  /\ fundData = Null
  /\ categoryAverages = Null
  /\ scoreResult = Null
  /\ batchFunds = <<>>
  /\ batchScores = <<>>
  /\ AggregateIdle
  /\ AuxIdle

InitNormalize ==
  /\ fundsWithScores \in FundLists
  /\ rawInput = fundsWithScores
  /\ firstOutput = <<>>
  /\ passes = 0
  /\ categories = <<>>
  /\ ScoreIdle
  /\ SyncIdle

NormalizePass ==
  /\ passes < MaxPasses
  /\ categories' = Categories(fundsWithScores)
  /\ fundsWithScores' = normalizeFundScores(fundsWithScores)
  /\ firstOutput' = IF passes = 0 THEN fundsWithScores' ELSE firstOutput
  /\ passes' = passes + 1
  /\ UNCHANGED <<rawInput, unitVars, syncVars>>

NextNormalize == NormalizePass

SpecNormalize == InitNormalize /\ [][NextNormalize]_vars

----------------------------------------------------------------------------
(* Specification SpecScore: calculateFundScore on bounded inputs           *)

FundReturnValues == {Null, Num(-5), Num(10)}

CategoryReturnValues ==
  {Null, Num(<<-8, 1>>), Num(<<1, 2>>), Num(<<2, 1>>), Num(<<4, 1>>)}

FundInputs ==
  { [returns_1y |-> a, returns_3y |-> b, returns_5y |-> c, returns_1w |-> d,
     fund_category |-> k[2], fund_type |-> k[1]] :
      a \in FundReturnValues, b \in FundReturnValues,
      c \in FundReturnValues, d \in FundReturnValues,
      k \in { <<"Equity", "Large Cap Fund">>,
               <<"Hybrid", "Aggressive Hybrid Fund">> } }

CategoryAvgRows == [PeriodSet -> CategoryReturnValues]

\* null, the empty object, or the rows read from category_averages
CategoryAverageInputs ==
  {Null, Num(<<>>)}
    \cup { Num([c \in {"Large Cap Fund"} |-> row]) : row \in CategoryAvgRows }

NormalizeIdle ==
  /\ fundsWithScores = <<>>
  /\ rawInput = <<>>
  /\ firstOutput = <<>>
  /\ passes = 0
  /\ categories = <<>>

InitScore ==
  /\ fundData \in FundInputs
  /\ categoryAverages \in CategoryAverageInputs
  /\ scoreResult = Null
  /\ batchFunds = <<>>
  /\ batchScores = <<>>
  /\ AggregateIdle
  /\ AuxIdle
  /\ NormalizeIdle
  /\ SyncIdle

\* one call of calculateFundScore; the record keeps the values of the
\* locals of calculateRawScore next to the returned total_score
CalculateFundScore ==
  /\ scoreResult = Null
  /\ scoreResult' =
       Num([total_score |-> calculateFundScore(fundData, categoryAverages),
            rawScore |-> calculateRawScore(fundData, categoryAverages),
            outperformance |-> HasCategoryAvg(fundData, categoryAverages),
            values |-> PeriodValues(fundData, categoryAverages)])
  /\ UNCHANGED <<fundData, categoryAverages, batchVars, aggVars, auxVars, normVars, syncVars>>

NextScore == CalculateFundScore

SpecScore == InitScore /\ [][NextScore]_vars

----------------------------------------------------------------------------
(* Specification SpecBatch: the scoring loop over a list of funds whose    *)
(* return fields hold whatever the source delivered                        *)

MaxBatch == 2

\* null, a number, and the strings "abc", "12a", "" and " 7"
BatchReturnValues ==
  {Null, Num(10), Str(<<"a", "b", "c">>), Str(<<"1", "2", "a">>), Str(<<>>),
   Str(<<" ", "7">>)}

BatchFundInputs ==
  { [returns_1y |-> a, returns_3y |-> b, returns_5y |-> Null, returns_1w |-> Null,
     fund_category |-> "Large Cap Fund", fund_type |-> "Equity"] :
      a \in BatchReturnValues, b \in {Null, Num(-5), Str(<<>>)} }

BatchCategoryAverages ==
  {Null,
   Num([c \in {"Large Cap Fund"} |->
          [returns_1y |-> Num(<<4, 1>>), returns_3y |-> Num(<<2, 1>>),
           returns_5y |-> Null, returns_1w |-> Null]])}

InitBatch ==
  /\ batchFunds \in UNION { [1..n -> BatchFundInputs] : n \in 1..MaxBatch }
  /\ batchScores = <<>>
  /\ categoryAverages \in BatchCategoryAverages
  /\ fundData = Null
  /\ scoreResult = Null
  /\ AggregateIdle
  /\ AuxIdle
  /\ NormalizeIdle
  /\ SyncIdle

\* one iteration of the loop: the next fund is scored
ScoreNextFund ==
  /\ Len(batchScores) < Len(batchFunds)
  /\ batchScores' =
       Append(batchScores,
              calculateFundScore(batchFunds[Len(batchScores) + 1], categoryAverages))
  /\ UNCHANGED <<batchFunds, categoryAverages, fundData, scoreResult, aggVars, auxVars, normVars, syncVars>>

NextBatch == ScoreNextFund

SpecBatch == InitBatch /\ [][NextBatch]_vars

----------------------------------------------------------------------------
(* Category averages: processCategoryAverages / storeCategoryAverages      *)
(* (seed.js) and updateCategoryAverages (update.js)                        *)

allowedEquityCategories ==
  {"Large Cap Fund", "Mid Cap Fund", "Small Cap Fund", "Flexi Cap Fund", "ELSS"}

allowedHybridCategories ==
  {"Aggressive Hybrid Fund", "Dynamic Asset Allocation or Balanced Advantage",
   "Multi Asset Allocation"}

\* returnFields / targetFields: the API field behind each stored column
TargetFields ==
  {"returns_1w", "returns_1y", "returns_3y", "returns_5y", "returns_inception"}

ReturnField ==
  [returns_1w |-> "week_1", returns_1y |-> "year_1", returns_3y |-> "year_3",
   returns_5y |-> "year_5", returns_inception |-> "inception"]

\* a slip that keeps every category that is not a hybrid one
IsEquityCategoryAny(cat) == cat.category_name \notin allowedHybridCategories

IsEquityCategory(cat) == cat.category_name \in allowedEquityCategories

IsHybridCategory(cat) == cat.category_name \in allowedHybridCategories

\* validValues.reduce((sum, val) => sum + val, 0)
RECURSIVE SumValid(_, _, _)
SumValid(cats, field, k) ==
  IF k = 0 THEN <<0, 1>>
  ELSE IF IsNull(cats[k][field]) THEN SumValid(cats, field, k - 1)
       ELSE RAdd(SumValid(cats, field, k - 1), cats[k][field][1])

CountValid(cats, field) ==
  Cardinality({k \in DOMAIN cats : ~IsNull(cats[k][field])})

\* a slip that divides by the number of hybrid categories, counting a null
\* value as 0
HybridFieldNullAsZero(hybridCategories, field) ==
  IF CountValid(hybridCategories, field) > 0
  THEN RDiv(SumValid(hybridCategories, field, Len(hybridCategories)),
            <<Len(hybridCategories), 1>>)
  ELSE <<0, 1>>

\* hybridAverage[target]: the mean of the valid values, 0 when there is none
HybridField(hybridCategories, field) ==
  IF CountValid(hybridCategories, field) > 0
  THEN RDiv(SumValid(hybridCategories, field, Len(hybridCategories)),
            <<CountValid(hybridCategories, field), 1>>)
  ELSE <<0, 1>>

EquityRow(category) ==
  [t \in TargetFields \cup {"category_name"} |->
     IF t = "category_name" THEN category.category_name
     ELSE category[ReturnField[t]]]

HybridRow(hybridCategories) ==
  [t \in TargetFields \cup {"category_name"} |->
     IF t = "category_name" THEN "Hybrid"
     ELSE Num(HybridField(hybridCategories, ReturnField[t]))]

\* processedCategories: the allow-listed equity categories as they are,
\* then the blended "Hybrid" row when a hybrid category is present
ProcessedCategories(categoryData) ==
  LET equityCategories == SelectSeq(categoryData, IsEquityCategory)
      hybridCategories == SelectSeq(categoryData, IsHybridCategory)
      equityRows == [k \in DOMAIN equityCategories |-> EquityRow(equityCategories[k])]
  IN  IF Len(hybridCategories) > 0
      THEN Append(equityRows, HybridRow(hybridCategories))
      ELSE equityRows

\* a DECIMAL(8,4) column keeps 4 decimals
ToDecimal4(x) ==
  IF IsNull(x) THEN Null ELSE Num(RNorm(<<MathRound(10000 * x[1][1], x[1][2]), 10000>>))

StoredCategoryRow(row) ==
  [t \in TargetFields \cup {"category_name"} |->
     IF t = "category_name" THEN row.category_name ELSE ToDecimal4(row[t])]

\* INSERT ... ON CONFLICT (category_name) DO UPDATE, one row after the
\* other: the row of that name is replaced, a new name is inserted
RECURSIVE UpsertCategories(_, _, _)
UpsertCategories(table, rows, k) ==
  IF k = 0 THEN table
  ELSE LET before == UpsertCategories(table, rows, k - 1)
           name   == rows[k].category_name
       IN  IF \E i \in DOMAIN before : before[i].category_name = name
           THEN [i \in DOMAIN before |->
                   IF before[i].category_name = name
                   THEN StoredCategoryRow(rows[k]) ELSE before[i]]
           ELSE Append(before, StoredCategoryRow(rows[k]))

\* a slip that leaves out the transaction: the rows written before the
\* failing one stay
WriteCategoriesNoRollback(table, rows, failAt) ==
  IF failAt = 0 THEN UpsertCategories(table, rows, Len(rows))
  ELSE UpsertCategories(table, rows, failAt - 1)

\* BEGIN, the upserts, COMMIT; when the write of rows[failAt] fails the
\* catch block issues ROLLBACK (failAt = 0: no write fails)
WriteCategories(table, rows, failAt) ==
  IF failAt = 0 THEN UpsertCategories(table, rows, Len(rows)) ELSE table

----------------------------------------------------------------------------
(* Specification SpecAggregate: the aggregator on bounded API responses    *)

\* the category names of the responses, in the order of the response
CategoryNames ==
  <<"Large Cap Fund", "Liquid Fund", "Aggressive Hybrid Fund", "Mid Cap Fund",
    "Dynamic Asset Allocation or Balanced Advantage", "Multi Asset Allocation">>

\* the (year_1, year_3) values a category may report
CategoryReports ==
  { <<Null, Null>>, <<Num(<<10, 1>>), Num(<<4, 1>>)>>, <<Num(<<20, 1>>), Null>>,
    <<Null, Num(<<4, 1>>)>> }

\* the response that lists the categories picked, with the values reported
CategoryResponse(picked, reports) ==
  [k \in 1..Cardinality(picked) |->
     LET n == CHOOSE n \in picked : Cardinality({m \in picked : m < n}) = k - 1
     IN  [category_name |-> CategoryNames[n], week_1 |-> Null,
          year_1 |-> reports[n][1], year_3 |-> reports[n][2],
          year_5 |-> Null, inception |-> Null]]

CategoryResponses ==
  UNION { { CategoryResponse(picked, reports) : reports \in [picked -> CategoryReports] } :
            picked \in SUBSET DOMAIN CategoryNames }

InitAggregate ==
  /\ responseData \in CategoryResponses
  /\ processedCategories = Null
  /\ fundData = Null
  /\ categoryAverages = Null
  /\ scoreResult = Null
  /\ batchFunds = <<>>
  /\ batchScores = <<>>
  /\ AuxIdle
  /\ NormalizeIdle
  /\ SyncIdle

\* the response is filtered, split and blended
ProcessCategoryAverages ==
  /\ processedCategories = Null
  /\ processedCategories' = Num(ProcessedCategories(responseData))
  /\ UNCHANGED <<responseData, scoreVars, batchVars, auxVars, normVars, syncVars>>

NextAggregate == ProcessCategoryAverages

SpecAggregate == InitAggregate /\ [][NextAggregate]_vars

----------------------------------------------------------------------------
(* applyAdvancedFilters (seed.js)                                          *)

\* String.prototype.toLowerCase over the letters in use
LowerCaseOf(c) ==
  IF c = "A" THEN "a" ELSE IF c = "F" THEN "f" ELSE IF c = "I" THEN "i"
  ELSE IF c = "N" THEN "n" ELSE IF c = "T" THEN "t" ELSE IF c = "Y" THEN "y"
  ELSE c

ToLowerCase(chars) == [k \in DOMAIN chars |-> LowerCaseOf(chars[k])]

\* String.prototype.includes
Includes(chars, part) ==
  \E k \in 0..(Len(chars) - Len(part)) : SubSeq(chars, k + 1, k + Len(part)) = part

\* fund.name.toLowerCase().includes('nifty')
IncludesNifty(name) ==
  Includes(ToLowerCase(name[2]), <<"n", "i", "f", "t", "y">>)

\* truthiness of a nullable number, of a nullable string, of a code
TruthyNumber(v) == ~IsNull(v) /\ v[1] # 0

TruthyString(v) == ~IsNull(v) /\ v[2] # <<>>

\* the tally the loop increments for a fund: the first check, in the order
\* of the code, that the fund fails, or "passed"
FilterTally(fund) ==
  LET hasLumpsum == fund.lump_available = "Y"
      hasSip     == fund.sip_available = "Y"
  IN  IF ~hasLumpsum /\ ~hasSip THEN "availability"
      ELSE IF fund.direct # "Y" THEN "fundType"
      ELSE IF fund.plan # "GROWTH" THEN "planType"
      ELSE IF fund.maturity_type # "Open Ended" THEN "maturity"
      ELSE IF TruthyNumber(fund.fund_rating) /\ fund.fund_rating[1] \in {1, 2}
           THEN "rating"
      ELSE IF TruthyNumber(fund.aum) /\ fund.aum[1] < 10 * 10 THEN "aum"
      ELSE IF ~TruthyString(fund.name) \/ fund.code = "" THEN "dataIntegrity"
      ELSE IF IncludesNifty(fund.name) THEN "indexFund"
      ELSE "passed"

FilterTallies ==
  {"availability", "fundType", "planType", "maturity", "rating", "aum",
   "dataIntegrity", "indexFund", "passed"}

----------------------------------------------------------------------------
(* Specification SpecFilter: applyAdvancedFilters on bounded lists         *)

MaxDetails == 2

\* scripts started one after the other
MaxOperations == 2

\* fund names: empty, plain, and one that holds 'nifty' in mixed case
FundNames ==
  { Str(<<>>), Str(<<"A", "x">>), Str(<<"a", "N", "i", "f", "t", "y">>) }

\* fund details as the API reports them; aum is in units of a tenth of a
\* crore
AnyFundDetails ==
  [lump_available : {"Y", "N"}, sip_available : {"Y", "N"}, direct : {"Y", "N"},
   plan : {"GROWTH", "IDCW"}, maturity_type : {"Open Ended", "Close Ended"},
   fund_rating : {Null, Num(2), Num(4)},
   aum : {Null, Num(0), Num(50), Num(100)},
   name : FundNames, code : {"", "C1"}]

\* the funds that come before the last one of a list: one that passes
\* every check and one that fails the first
LeadingFundDetails ==
  { [lump_available |-> lump, sip_available |-> "N", direct |-> "Y",
     plan |-> "GROWTH", maturity_type |-> "Open Ended", fund_rating |-> Num(4),
     aum |-> Num(100), name |-> Str(<<"A", "x">>), code |-> "C1"] :
      lump \in {"Y", "N"} }

FundDetailLists ==
  UNION { {lead \o <<fund>> : lead \in [1..(n - 1) -> LeadingFundDetails],
                               fund \in AnyFundDetails} : n \in 1..MaxDetails }

InitFilter ==
  /\ fundDetails \in FundDetailLists
  /\ filterIndex = 0
  /\ passedFunds = <<>>
  /\ filterStats = [t \in FilterTallies |-> 0]
  /\ fundData = Null
  /\ categoryAverages = Null
  /\ scoreResult = Null
  /\ batchFunds = <<>>
  /\ batchScores = <<>>
  /\ AggregateIdle
  /\ LegacyIdle
  /\ ClientsIdle
  /\ NormalizeIdle
  /\ SyncIdle

\* one iteration of the loop: the next fund is tallied, and pushed when it
\* passed every check
FilterFund ==
  /\ filterIndex < Len(fundDetails)
  /\ LET fund  == fundDetails[filterIndex + 1]
         tally == FilterTally(fund)
     IN  /\ filterStats' = [filterStats EXCEPT ![tally] = @ + 1]
         /\ passedFunds' = IF tally = "passed" THEN Append(passedFunds, fund)
                           ELSE passedFunds
  /\ filterIndex' = filterIndex + 1
  /\ UNCHANGED <<fundDetails, legacyVars, clientVars, scoreVars, batchVars, aggVars, normVars, syncVars>>

NextFilter == FilterFund

SpecFilter == InitFilter /\ [][NextFilter]_vars

----------------------------------------------------------------------------
(* calculateOverallWeightedScore (seeder.js)                               *)

\* weights, in units of 1/100
LegacyWeights ==
  [p \in {"1W", "1M", "3M", "6M", "YTD", "1Y", "2Y", "3Y", "5Y", "10Y"} |->
     IF p = "1W" THEN 2 ELSE IF p = "1M" THEN 5 ELSE IF p = "3M" THEN 9
     ELSE IF p = "6M" THEN 14 ELSE IF p = "YTD" THEN 7 ELSE IF p = "1Y" THEN 20
     ELSE IF p = "2Y" THEN 13 ELSE IF p = "3Y" THEN 13 ELSE IF p = "5Y" THEN 11
     ELSE 6]

\* periodData && periodData.value !== null && !isNaN(periodData.value)
LegacyHasData(returns, period) == ~IsNull(returns[period])

RECURSIVE SumOver(_, _)
SumOver(f, S) ==
  IF S = {} THEN 0
  ELSE LET x == CHOOSE x \in S : TRUE
       IN  f[x] + SumOver(f, S \ {x})

\* the result: score and totalWeightUsed in units of 1/100, and the number
\* of periods with a contribution other than 0
calculateOverallWeightedScore(returns) ==
  LET used == {p \in DOMAIN LegacyWeights : LegacyHasData(returns, p)}
      contribution == [p \in DOMAIN LegacyWeights |->
                         IF p \in used THEN returns[p][1] * LegacyWeights[p] ELSE 0]
  IN  [score |-> SumOver(contribution, DOMAIN LegacyWeights),
       totalWeightUsed |-> SumOver(LegacyWeights, used),
       availablePeriods |-> Cardinality({p \in DOMAIN LegacyWeights : contribution[p] # 0}),
       totalPeriods |-> Cardinality(DOMAIN LegacyWeights)]

----------------------------------------------------------------------------
(* Specification SpecLegacy: calculateOverallWeightedScore on bounded      *)
(* returns                                                                 *)

LegacyReturnValues == {Null, Num(-5), Num(10)}

InitLegacy ==
  /\ legacyReturns \in [DOMAIN LegacyWeights -> LegacyReturnValues]
  /\ legacyResult = Null
  /\ FilterIdle
  /\ ClientsIdle
  /\ fundData = Null
  /\ categoryAverages = Null
  /\ scoreResult = Null
  /\ batchFunds = <<>>
  /\ batchScores = <<>>
  /\ responseData = <<>>
  /\ processedCategories = Null
  /\ NormalizeIdle
  /\ SyncIdle

LegacyScore ==
  /\ legacyResult = Null
  /\ legacyResult' = Num(calculateOverallWeightedScore(legacyReturns))
  /\ UNCHANGED <<legacyReturns, filterVars, clientVars, scoreVars, batchVars, aggVars, normVars, syncVars>>

NextLegacy == LegacyScore

SpecLegacy == InitLegacy /\ [][NextLegacy]_vars

----------------------------------------------------------------------------
(* The external API, as far as the runs read it                            *)

MaxDbFunds == 2

MaxRuns == 2

MaxDay == 2

FundIds == 1..MaxDbFunds

\* every second fund of the API is a hybrid fund, the others are large caps
ApiFundKind(code) ==
  IF code % 2 = 0 THEN <<"Hybrid", "Aggressive Hybrid Fund">>
  ELSE <<"Equity", "Large Cap Fund">>

ApiReturns ==
  { [week_1 |-> Null, year_1 |-> Null, year_3 |-> Null, year_5 |-> Null],
    [week_1 |-> Null, year_1 |-> Num(10), year_3 |-> Num(-5), year_5 |-> Null],
    [week_1 |-> Null, year_1 |-> Num(-5), year_3 |-> Null, year_5 |-> Null] }

\* what the API may report for a fund: its returns and its NAV date
ApiFundData == ApiReturns \X (1..MaxDay)

\* getFundDetails(code): the details of one fund; the day 0 stands for a
\* nav without a date
ApiFundDetails(code, data) ==
  [code |-> code, fund_type |-> ApiFundKind(code)[1],
   fund_category |-> ApiFundKind(code)[2], returns |-> data[1],
   nav_date |-> IF data[2] = 0 THEN Null ELSE Num(data[2])]

ApiCategory(name, w1, y1, y3, y5, inc) ==
  [category_name |-> name, week_1 |-> w1, year_1 |-> y1, year_3 |-> y3,
   year_5 |-> y5, inception |-> inc]

\* fund_categories.json
ApiCategoryResponses ==
  { << ApiCategory("Large Cap Fund", Null, Num(<<4, 1>>), Num(<<2, 1>>), Null, Null),
       ApiCategory("Liquid Fund", Null, Num(<<7, 1>>), Null, Null, Null),
       ApiCategory("Aggressive Hybrid Fund", Null, Num(<<10, 1>>), Num(<<4, 1>>), Null, Null),
       ApiCategory("Multi Asset Allocation", Null, Num(<<20, 1>>), Null, Null, Null) >>,
    << ApiCategory("Large Cap Fund", Null, Num(<<2, 1>>), Num(<<-8, 1>>), Null, Null) >> }

----------------------------------------------------------------------------
(* Rows of the funds table                                                 *)

\* the codes of a set of funds in ascending order (ORDER BY)
RECURSIVE Ascending(_)
Ascending(S) ==
  IF S = {} THEN <<>>
  ELSE LET m == MaxOf(S) IN Append(Ascending(S \ {m}), m)

\* fundDataForScoring built from a row (update.js, seed.js)
FundDataForScoring(row) ==
  [returns_1y |-> row.returns_1y, returns_3y |-> row.returns_3y,
   returns_5y |-> row.returns_5y, returns_1w |-> row.returns_1w,
   fund_category |-> row.fund_category, fund_type |-> row.fund_type]

\* getCategoryAveragesForScoring: the rows of category_averages by name
CategoryAveragesForScoring ==
  Num([n \in {category_averages[i].category_name : i \in DOMAIN category_averages} |->
         category_averages[CHOOSE i \in DOMAIN category_averages :
                             /\ category_averages[i].category_name = n
                             /\ \A j \in DOMAIN category_averages :
                                  category_averages[j].category_name = n => j <= i]])

\* processSingleFund: the row inserted for one fund, with its raw score
SeededRow(fund, run) ==
  LET fundType == IF fund.fund_type # "" THEN fund.fund_type ELSE "Other"
      row == [fund_type |-> fundType, fund_category |-> fund.fund_category,
              returns_1w |-> fund.returns.week_1, returns_1y |-> fund.returns.year_1,
              returns_3y |-> fund.returns.year_3, returns_5y |-> fund.returns.year_5,
              current_nav_date |-> fund.nav_date]
  IN  [k \in DOMAIN row \cup {"total_score", "origin", "scored_run"} |->
         IF k = "total_score"
         THEN calculateFundScore(FundDataForScoring(row), CategoryAveragesForScoring)
         ELSE IF k = "origin" THEN "raw"
         ELSE IF k = "scored_run" THEN run
         ELSE row[k]]

\* updateFundData: the row after UPDATE funds SET ... with the latest data
UpdatedRow(row, latestData) ==
  [row EXCEPT !.returns_1w = latestData.returns.week_1,
              !.returns_1y = latestData.returns.year_1,
              !.returns_3y = latestData.returns.year_3,
              !.returns_5y = latestData.returns.year_5,
              !.current_nav_date = latestData.nav_date]

\* UPDATE funds SET total_score = $1: origin and scored_run record where
\* the stored score comes from
WithScore(row, score, origin, run) ==
  [row EXCEPT !.total_score = score, !.origin = origin, !.scored_run = run]

\* the table after every row was rescored with the category averages
RescoredFunds(table, run) ==
  [c \in DOMAIN table |->
     WithScore(table[c],
               calculateFundScore(FundDataForScoring(table[c]),
                                  CategoryAveragesForScoring),
               "raw", run)]

\* the rows handed to normalizeFundScores, in query order
RowsOf(table, codes) ==
  LET order == Ascending(codes)
  IN  [k \in DOMAIN order |->
         [code |-> order[k], fund_type |-> table[order[k]].fund_type,
          fund_category |-> table[order[k]].fund_category,
          total_score |-> table[order[k]].total_score]]

\* the table after the normalized scores were written back by id
WithNormalizedScores(table, normalizedFunds, run) ==
  [c \in DOMAIN table |->
     IF \E k \in DOMAIN normalizedFunds : normalizedFunds[k].code = c
     THEN LET k == CHOOSE k \in DOMAIN normalizedFunds : normalizedFunds[k].code = c
          IN  WithScore(table[c], normalizedFunds[k].total_score, "normalized", run)
     ELSE table[c]]

\* what a call of normalizeFundScores was given: the run, the codes in the
\* store, and for each fund fed its score and where the score came from
NormalizationRecord(table, codes, run) ==
  Num([run |-> run, store |-> DOMAIN table,
       fed |-> [c \in codes |->
                  [total_score |-> table[c].total_score,
                   origin |-> table[c].origin,
                   scored_run |-> table[c].scored_run]]])

----------------------------------------------------------------------------
(* seedDatabase (seed.js)                                                  *)

EndRun ==
  /\ pc' = "idle"
  /\ filteredFunds' = <<>>
  /\ activeFunds' = <<>>
  /\ batchStart' = 0
  /\ updatedFunds' = <<>>
  /\ skippedFunds' = 0
  /\ failedFunds' = 0

\* what a run is remembered by: its kind, the store it started on (kept when
\* the run goes on, taken when it starts), and how far it got
RunRecord(kind, outcome) ==
  Num([kind |-> kind, outcome |-> outcome, run |-> runs + 1,
       funds |-> funds, category_averages |-> category_averages,
       lastNormalization |-> lastNormalization])

RunOutcome(outcome) == Num([lastRun[1] EXCEPT !.outcome = outcome])

\* checkExistingData: true when the funds table exists and holds a row; the
\* catch block answers false when a query of the check fails
checkExistingData(checkFailed) ==
  IF checkFailed THEN FALSE ELSE tablesExist /\ DOMAIN funds # {}

\* Stage 0, checkExistingData: seeding is skipped when funds holds a row
SeedCheckExistingData ==
  /\ pc = "idle"
  /\ runs < MaxRuns
  /\ runs' = runs + 1
  /\ \E checkFailed \in BOOLEAN :
       IF checkExistingData(checkFailed)
       THEN /\ EndRun
            /\ lastRun' = RunRecord("seed", "skipped")
       ELSE /\ pc' = "seed_discover"
            /\ lastRun' = RunRecord("seed", "running")
            /\ UNCHANGED <<filteredFunds, activeFunds, batchStart, updatedFunds,
                           skippedFunds, failedFunds>>
  /\ UNCHANGED <<revision, lastNormalization, lastCategoryWrite, batchLog, lastFundWrites,
                 storeVars, normVars, unitVars>>

\* Stages 1 to 3: the details of the funds that passed discovery, retrieval
\* and filtering; an empty result fails the run
SeedDiscoverAndFilter ==
  /\ pc = "seed_discover"
  /\ \E codes \in SUBSET FundIds :
       IF codes = {}
       THEN EndRun
       ELSE \E data \in [codes -> ApiFundData] :
              /\ filteredFunds' = [k \in DOMAIN Ascending(codes) |->
                                     ApiFundDetails(Ascending(codes)[k],
                                                    data[Ascending(codes)[k]])]
              /\ pc' = "seed_tables"
              /\ UNCHANGED <<activeFunds, batchStart, updatedFunds, skippedFunds, failedFunds>>
  /\ UNCHANGED <<revision, runs, lastNormalization, lastCategoryWrite, storeVars, batchLog, lastFundWrites, lastRun, normVars, unitVars>>

\* the transaction of storeCategoryAverages / updateCategoryAverages
StoreCategoryAverages(rows, failAt) ==
  /\ category_averages' = WriteCategories(category_averages, rows, failAt)
  /\ lastCategoryWrite' =
       Num([before |-> category_averages, rows |-> rows, failed |-> failAt # 0])

\* Stages 4 and 5: createDatabaseTables, then processCategoryAverages; a
\* failed write fails the run
SeedCategoryAverages ==
  /\ pc = "seed_tables"
  /\ \E categoryData \in ApiCategoryResponses :
       LET rows == ProcessedCategories(categoryData)
       IN  \E failAt \in 0..Len(rows) :
             /\ StoreCategoryAverages(rows, failAt)
             /\ IF failAt = 0
                THEN /\ pc' = "seed_store"
                     /\ UNCHANGED <<filteredFunds, activeFunds, batchStart, updatedFunds,
                                    skippedFunds, failedFunds>>
                ELSE EndRun
  /\ tablesExist' = TRUE
  /\ UNCHANGED <<funds, revision, runs, lastNormalization, batchLog, lastFundWrites, lastRun, normVars, unitVars>>

\* batchSize of processAndStoreFunds
seedBatchSize == 10

\* what can happen to one fund in a per-fund try block: nothing, an
\* exception thrown by the script before a statement is sent, or a statement
\* the database rejects
FundFailures == {"none", "script", "query"}

\* PostgreSQL: once a statement of a transaction was rejected the transaction
\* is aborted, every later statement is rejected too, and COMMIT rolls back
TransactionAborted(failure, positions) ==
  \E k \in positions : failure[k] = "query"

\* the positions of the list whose writes are committed: the fund did not
\* fail and the transaction it was written in was not aborted
CommittedPositions(failure, size) ==
  {k \in DOMAIN failure :
     /\ failure[k] = "none"
     /\ ~TransactionAborted(failure,
           {j \in DOMAIN failure : (j - 1) \div size = (k - 1) \div size})}

\* Stage 6, processAndStoreFunds: every fund is inserted with its raw score,
\* one transaction per batch, each fund in its own try block
SeedProcessAndStoreFunds ==
  /\ pc = "seed_store"
  /\ \E failure \in [DOMAIN filteredFunds -> FundFailures] :
       LET stored == CommittedPositions(failure, seedBatchSize)
       IN  /\ funds' = [c \in DOMAIN funds \cup {filteredFunds[k].code : k \in stored} |->
                          IF \E k \in stored : filteredFunds[k].code = c
                          THEN SeededRow(filteredFunds[CHOOSE k \in stored :
                                                         filteredFunds[k].code = c], runs)
                          ELSE funds[c]]
           /\ lastFundWrites' =
                Num([c \in {filteredFunds[k].code : k \in DOMAIN filteredFunds} |->
                       failure[CHOOSE k \in DOMAIN filteredFunds : filteredFunds[k].code = c]])
  /\ pc' = "seed_score"
  /\ UNCHANGED <<tablesExist, category_averages, revision, runs, filteredFunds,
                 activeFunds, batchStart, updatedFunds, skippedFunds, failedFunds,
                 lastNormalization, lastCategoryWrite, batchLog, lastRun, normVars, unitVars>>

\* Stage 7, calculateAndNormalizeScores: every row is rescored, the list is
\* normalized and the normalized scores are written back
SeedCalculateAndNormalizeScores ==
  /\ lastFundWrites' = Null
  /\ pc = "seed_score"
  /\ LET fundsData == RescoredFunds(funds, runs)
         normalizedFunds == normalizeFundScores(RowsOf(fundsData, DOMAIN fundsData))
     IN  /\ lastNormalization' = NormalizationRecord(fundsData, DOMAIN fundsData, runs)
         /\ funds' = WithNormalizedScores(fundsData, normalizedFunds, runs)
  /\ pc' = "seed_prune"
  /\ UNCHANGED <<tablesExist, category_averages, revision, runs, filteredFunds,
                 activeFunds, batchStart, updatedFunds, skippedFunds, failedFunds,
                 lastCategoryWrite, batchLog, lastRun, normVars, unitVars>>

\* a slip that removes the funds below 50
LowScoreBelowFifty(row) ==
  ~IsNull(row.total_score) /\ row.total_score # NaN /\ row.total_score[1] < 5000

\* WHERE total_score < 70: false for NULL, and for NaN, which PostgreSQL
\* orders above every number
LowScore(row) ==
  ~IsNull(row.total_score) /\ row.total_score # NaN /\ row.total_score[1] < 7000

\* Stage 8: DELETE FROM funds WHERE total_score < 70
SeedRemoveLowScores ==
  /\ pc = "seed_prune"
  /\ funds' = [c \in {d \in DOMAIN funds : ~LowScore(funds[d])} |-> funds[c]]
  /\ lastRun' = RunOutcome("completed")
  /\ EndRun
  /\ UNCHANGED <<tablesExist, category_averages, revision, runs,
                 lastNormalization, lastCategoryWrite, batchLog, lastFundWrites,
                 normVars, unitVars>>

----------------------------------------------------------------------------
(* dailyUpdate (update.js, both revisions)                                 *)

\* batchSize of fetchAndUpdateLatestData
batchSize == 5

\* getActiveFundsFromDatabase: the rows of funds, ordered by code
ActiveFunds(table) ==
  [k \in DOMAIN Ascending(DOMAIN table) |->
     [code |-> Ascending(DOMAIN table)[k],
      current_nav_date |-> table[Ascending(DOMAIN table)[k]].current_nav_date]]

\* Phase 1, getActiveFundsFromDatabase: fails when the table is missing
UpdateGetActiveFunds ==
  /\ pc = "idle"
  /\ runs < MaxRuns
  /\ runs' = runs + 1
  /\ lastRun' = RunRecord("update", "running")
  /\ IF ~tablesExist
     THEN EndRun
     ELSE /\ activeFunds' = ActiveFunds(funds)
          /\ pc' = IF revision = "current" THEN "upd_categories" ELSE "upd_fetch"
          /\ UNCHANGED <<filteredFunds, batchStart, updatedFunds, skippedFunds, failedFunds>>
  /\ UNCHANGED <<revision, lastNormalization, lastCategoryWrite, storeVars, batchLog, lastFundWrites, normVars, unitVars>>

\* updateCategoryAverages (current revision only); a failed write fails the
\* run
UpdateCategoryAverages ==
  /\ pc = "upd_categories"
  /\ \E categoryData \in ApiCategoryResponses :
       LET rows == ProcessedCategories(categoryData)
       IN  \E failAt \in 0..Len(rows) :
             /\ StoreCategoryAverages(rows, failAt)
             /\ IF failAt = 0
                THEN /\ pc' = "upd_fetch"
                     /\ UNCHANGED <<filteredFunds, activeFunds, batchStart, updatedFunds,
                                    skippedFunds, failedFunds>>
                ELSE EndRun
  /\ UNCHANGED <<tablesExist, funds, revision, runs, lastNormalization, batchLog, lastFundWrites, lastRun, normVars, unitVars>>

\* formatDateForComparison: null for a date that is missing or not a date,
\* the day of a date otherwise (YYYY-MM-DD strings order as the days do)
formatDateForComparison(date) ==
  IF IsNull(date) THEN Null ELSE Num(date[1])

\* the decision taken for one fund of a batch: "failed" for a rejected
\* fetch, "skipped" when both dates are known and the fetched one is the
\* same or older, "updated" else
FetchOutcome(fund, result) ==
  IF result = Null THEN "failed"
  ELSE LET currentDateStr == formatDateForComparison(fund.current_nav_date)
           newDateStr == formatDateForComparison(result[1].nav_date)
       IN  IF ~IsNull(currentDateStr) /\ ~IsNull(newDateStr) /\ currentDateStr = newDateStr
           THEN "skipped"
           ELSE IF IsNull(currentDateStr) \/ IsNull(newDateStr)
                   \/ newDateStr[1] > currentDateStr[1]
                THEN "updated"
                ELSE "skipped"

\* the table after updateFundData ran for the funds of written, in order,
\* up to the write that fails (failAt = 0: none fails)
BatchWrites(table, results, written, failAt) ==
  [c \in DOMAIN table |->
     IF \E j \in written : activeFunds[j].code = c /\ (failAt = 0 \/ j < failAt)
     THEN UpdatedRow(table[c],
                     results[CHOOSE j \in written : activeFunds[j].code = c][1])
     ELSE table[c]]

\* a slip that leaves out the ROLLBACK: the writes made before the failing
\* one stay
BatchTransactionNoRollback(table, results, written, failAt) ==
  BatchWrites(table, results, written, failAt)

\* BEGIN, the writes of the batch, COMMIT; catch: ROLLBACK
BatchTransaction(table, results, written, failAt) ==
  IF failAt = 0 THEN BatchWrites(table, results, written, 0) ELSE table

\* Phase 2, fetchAndUpdateLatestData: one batch, fetched and written in one
\* transaction. choices[code] is what the API may answer for a fund (Null: a
\* rejected fetch); failAt is the position of the fund whose write fails,
\* last + 1 when COMMIT fails, 0 when nothing fails
FetchBatch(choices) ==
  /\ pc = "upd_fetch"
  /\ batchStart < Len(activeFunds)
  /\ LET i     == batchStart
         last  == IF i + batchSize < Len(activeFunds) THEN i + batchSize
                  ELSE Len(activeFunds)
         batch == (i + 1)..last
     IN  \E fetched \in [batch -> UNION {choices[activeFunds[j].code] : j \in batch}] :
           /\ \A j \in batch : fetched[j] \in choices[activeFunds[j].code]
           /\ LET results == [j \in batch |->
                                IF fetched[j] = Null THEN Null
                                ELSE Num(ApiFundDetails(activeFunds[j].code, fetched[j][1]))]
                  outcome == [j \in batch |-> FetchOutcome(activeFunds[j], results[j])]
                  written == {j \in batch : outcome[j] = "updated"}
              IN  \E failAt \in {0} \cup written \cup {last + 1} :
                    LET reached == {j \in batch : failAt = 0 \/ j < failAt}
                        pushed  == written \cap reached
                    IN  /\ funds' = BatchTransaction(funds, results, written, failAt)
                        /\ updatedFunds' = updatedFunds \o
                             [k \in 1..Cardinality(pushed) |->
                                activeFunds[Ascending(pushed)[k]].code]
                        /\ skippedFunds' = skippedFunds
                             + Cardinality({j \in reached : outcome[j] = "skipped"})
                        /\ failedFunds' = failedFunds
                             + Cardinality({j \in reached : outcome[j] = "failed"})
                             + (IF failAt = 0 THEN 0 ELSE Cardinality(batch))
                        /\ batchLog' = Append(batchLog,
                             [first |-> i + 1, last |-> last, failed |-> failAt # 0,
                              writes |-> Cardinality(pushed), results |-> results,
                              before |-> funds, after |-> funds'])
  /\ batchStart' = batchStart + batchSize
  /\ UNCHANGED <<tablesExist, category_averages, revision, pc, runs, filteredFunds,
                 activeFunds, lastNormalization, lastCategoryWrite, lastFundWrites, lastRun, normVars, unitVars>>

\* every answer of the API, or a rejected fetch
AnyFetch == [code \in DOMAIN funds |-> {Null} \cup {Num(d) : d \in ApiFundData}]

UpdateFetchBatch == FetchBatch(AnyFetch)

\* a slip that goes on to the scores whatever was updated
HasUpdatedFundsAlways(updated) == TRUE

\* dailyUpdate: if (updatedFunds.length > 0) { raw scores, then normalization }
HasUpdatedFunds(updated) == Len(updated) > 0

\* the batch loop is over: scores are recomputed only when a fund was updated
UpdateFetchDone ==
  /\ pc = "upd_fetch"
  /\ batchStart >= Len(activeFunds)
  /\ batchLog' = <<>>
  /\ lastRun' = RunOutcome(IF Len(updatedFunds) = 0 THEN "no_new_data" ELSE "new_data")
  /\ IF HasUpdatedFunds(updatedFunds)
     THEN /\ pc' = "upd_raw"
          /\ UNCHANGED <<filteredFunds, activeFunds, batchStart, updatedFunds,
                         skippedFunds, failedFunds>>
     ELSE EndRun
  /\ UNCHANGED <<revision, runs, lastNormalization, lastCategoryWrite, storeVars,
                 lastFundWrites, normVars, unitVars>>

\* Phase 3A, calculateRawScoresForUpdatedFunds: the raw score of every
\* updated fund is stored, all in one transaction, each fund in its own try
\* block; the earlier revision scores on absolute returns
UpdateCalculateRawScores ==
  /\ pc = "upd_raw"
  /\ \E failure \in [DOMAIN updatedFunds -> FundFailures] :
       LET scored   == {updatedFunds[k] :
                          k \in CommittedPositions(failure, Len(updatedFunds))}
           averages == IF revision = "current" THEN CategoryAveragesForScoring ELSE Null
       IN  /\ funds' = [c \in DOMAIN funds |->
                          IF c \in scored
                          THEN WithScore(funds[c],
                                 calculateFundScore(FundDataForScoring(funds[c]), averages),
                                 "raw", runs)
                          ELSE funds[c]]
           /\ lastFundWrites' =
                Num([c \in {updatedFunds[k] : k \in DOMAIN updatedFunds} |->
                       failure[CHOOSE k \in DOMAIN updatedFunds : updatedFunds[k] = c]])
  /\ pc' = "upd_normalize"
  /\ UNCHANGED <<tablesExist, category_averages, revision, runs, filteredFunds,
                 activeFunds, batchStart, updatedFunds, skippedFunds, failedFunds,
                 lastNormalization, lastCategoryWrite, batchLog, lastRun, normVars, unitVars>>

\* Phase 3B, normalizeAllScoresInDatabase, current revision: every row is
\* rescored, the list is normalized and written back
UpdateNormalizeAllScores ==
  /\ lastFundWrites' = Null
  /\ pc = "upd_normalize"
  /\ revision = "current"
  /\ LET fundsData == RescoredFunds(funds, runs)
         normalizedFunds == normalizeFundScores(RowsOf(fundsData, DOMAIN fundsData))
     IN  /\ lastNormalization' = NormalizationRecord(fundsData, DOMAIN fundsData, runs)
         /\ funds' = WithNormalizedScores(fundsData, normalizedFunds, runs)
  /\ EndRun
  /\ UNCHANGED <<tablesExist, category_averages, revision, runs, lastCategoryWrite, batchLog, lastRun, normVars, unitVars>>

\* Phase 3B, normalizeAllScoresInDatabase, earlier revision: the stored
\* scores of the rows WHERE total_score IS NOT NULL are normalized as they are
UpdateNormalizeStoredScores ==
  /\ lastFundWrites' = Null
  /\ pc = "upd_normalize"
  /\ revision = "earlier"
  /\ LET withScore == {c \in DOMAIN funds : ~IsNull(funds[c].total_score)}
         normalizedFunds == normalizeFundScores(RowsOf(funds, withScore))
     IN  /\ lastNormalization' = NormalizationRecord(funds, withScore, runs)
         /\ funds' = WithNormalizedScores(funds, normalizedFunds, runs)
  /\ EndRun
  /\ UNCHANGED <<tablesExist, category_averages, revision, runs, lastCategoryWrite, batchLog, lastRun, normVars, unitVars>>

----------------------------------------------------------------------------
(* Specification SpecSync: seed and daily update runs against one store    *)

InitSync ==
  /\ revision \in {"current", "earlier"}
  /\ pc = "idle"
  /\ runs = 0
  /\ tablesExist = FALSE
  /\ funds = <<>>
  /\ category_averages = <<>>
  /\ filteredFunds = <<>>
  /\ activeFunds = <<>>
  /\ batchStart = 0
  /\ updatedFunds = <<>>
  /\ skippedFunds = 0
  /\ failedFunds = 0
  /\ lastNormalization = Null
  /\ lastCategoryWrite = Null
  /\ batchLog = <<>>
  /\ lastFundWrites = Null
  /\ lastRun = Null
  /\ NormalizeIdle
  /\ ScoreIdle

NextSync ==
  \/ SeedCheckExistingData
  \/ SeedDiscoverAndFilter
  \/ SeedCategoryAverages
  \/ SeedProcessAndStoreFunds
  \/ SeedCalculateAndNormalizeScores
  \/ SeedRemoveLowScores
  \/ UpdateGetActiveFunds
  \/ UpdateCategoryAverages
  \/ UpdateFetchBatch
  \/ UpdateFetchDone
  \/ UpdateCalculateRawScores
  \/ UpdateNormalizeAllScores
  \/ UpdateNormalizeStoredScores

SpecSync == InitSync /\ [][NextSync]_vars

----------------------------------------------------------------------------
(* Specification SpecCategories: the runs as far as they reach the         *)
(* category_averages table. The table is written by seeding stages 4-5 and *)
(* by updateCategoryAverages only; no fund is ever stored here, so a daily *)
(* update finds no active fund and ends after its category write.          *)

\* an empty database, before or after createDatabaseTables has run
InitCategories ==
  /\ revision = "current"
  /\ pc = "idle"
  /\ runs = 0
  /\ tablesExist \in BOOLEAN
  /\ funds = <<>>
  /\ category_averages = <<>>
  /\ filteredFunds = <<>>
  /\ activeFunds = <<>>
  /\ batchStart = 0
  /\ updatedFunds = <<>>
  /\ skippedFunds = 0
  /\ failedFunds = 0
  /\ lastNormalization = Null
  /\ lastCategoryWrite = Null
  /\ batchLog = <<>>
  /\ lastFundWrites = Null
  /\ lastRun = Null
  /\ NormalizeIdle
  /\ ScoreIdle

NextCategories ==
  \/ SeedCheckExistingData
  \/ SeedDiscoverAndFilter
  \/ SeedCategoryAverages
  \/ UpdateGetActiveFunds
  \/ UpdateCategoryAverages
  \/ UpdateFetchDone

SpecCategories == InitCategories /\ [][NextCategories]_vars

----------------------------------------------------------------------------
(* Specification SpecFetch: the batch loop of one daily update over a      *)
(* store of several batches                                                *)

MaxActive == 11

\* the returns the seeded funds were stored with, and the ones the API
\* reports during the update
SeededReturns ==
  [week_1 |-> Null, year_1 |-> Num(10), year_3 |-> Num(-5), year_5 |-> Null]

LatestReturns ==
  [week_1 |-> Null, year_1 |-> Num(-5), year_3 |-> Null, year_5 |-> Null]

\* the funds table a seeding run leaves when every fund was reported with
\* SeededReturns: the funds of a category share one raw score, so that each
\* row holds the normalized score of an all-equal group and none is removed
SeededStore ==
  [c \in 1..MaxActive |->
     WithScore(SeededRow(ApiFundDetails(c, <<SeededReturns, 1>>), 1),
               Num(EdgeCase2Score), "normalized", 1)]

\* what the API answers during the update: the first fund of a batch of
\* five has the stored NAV date or a newer one, the second a newer NAV or a
\* NAV without date, the fetch of the third may be rejected, the others
\* have a newer NAV
FewFetches ==
  [code \in 1..MaxActive |->
     IF code % batchSize = 1
     THEN {Num(<<LatestReturns, 1>>), Num(<<LatestReturns, MaxDay>>)}
     ELSE IF code % batchSize = 2
     THEN {Num(<<LatestReturns, 0>>), Num(<<LatestReturns, MaxDay>>)}
     ELSE IF code % batchSize = 3
     THEN {Null, Num(<<LatestReturns, MaxDay>>)}
     ELSE {Num(<<LatestReturns, MaxDay>>)}]

\* dailyUpdate has read the active funds and refreshed the category averages
InitFetch ==
  /\ revision = "current"
  /\ pc = "upd_fetch"
  /\ runs = MaxRuns
  /\ tablesExist = TRUE
  /\ category_averages \in
       {WriteCategories(<<>>, ProcessedCategories(categoryData), 0) :
          categoryData \in {r \in ApiCategoryResponses : Len(r) > 1}}
  /\ funds = SeededStore
  /\ filteredFunds = <<>>
  /\ activeFunds = ActiveFunds(funds)
  /\ batchStart = 0
  /\ updatedFunds = <<>>
  /\ skippedFunds = 0
  /\ failedFunds = 0
  /\ lastNormalization = Null
  /\ lastCategoryWrite = Null
  /\ batchLog = <<>>
  /\ lastFundWrites = Null
  /\ lastRun = Num([kind |-> "update", outcome |-> "running", run |-> runs,
                    funds |-> funds, category_averages |-> category_averages,
                    lastNormalization |-> lastNormalization])
  /\ NormalizeIdle
  /\ ScoreIdle

FetchLoopBatch == FetchBatch(FewFetches)

NextFetch ==
  \/ FetchLoopBatch
  \/ UpdateFetchDone

SpecFetch == InitFetch /\ [][NextFetch]_vars

----------------------------------------------------------------------------
(* Database clients of seedDatabase and dailyUpdate (seed.js, update.js)   *)

\* the functions of seedDatabase that take a client from the pool, in call order
seedClientFunctions ==
  <<"checkExistingData", "createDatabaseTables", "storeCategoryAverages",
    "processAndStoreFunds", "calculateAndNormalizeScores", "removeLowScores">>

\* the functions of dailyUpdate that take a client from the pool, in call order
updateClientFunctions ==
  <<"getActiveFundsFromDatabase", "updateCategoryAverages", "fetchAndUpdateLatestData",
    "calculateRawScoresForUpdatedFunds", "normalizeAllScoresInDatabase">>

ClientFunctions(op) ==
  IF op = "seedDatabase" THEN seedClientFunctions ELSE updateClientFunctions

CurrentFunction == ClientFunctions(operation)[stage]

\* the functions that run client.query("SET TIME ZONE 'Asia/Kolkata'") right
\* after pool.connect() and before their try block
SetsTimeZone(fn) == fn \notin {"removeLowScores", "updateCategoryAverages"}

\* the catch block of the function: absent, swallowing the error, rethrowing
\* it, or issuing ROLLBACK and rethrowing it
CatchBlockOf(fn) ==
  CASE fn = "removeLowScores" -> "none"
    [] fn = "checkExistingData" -> "swallow"
    [] fn \in {"getActiveFundsFromDatabase", "fetchAndUpdateLatestData"} -> "rethrow"
    [] OTHER -> "rollback"

\* finally { client.release(); }: the client taken last is released
ReleasedClients(list) ==
  [list EXCEPT ![Len(list)].released = list[Len(list)].released + 1]

\* the error leaves the function: the catch of the script rethrows it and
\* the finally of the script is next
ThrowToScript ==
  /\ thrown' = TRUE
  /\ clientStep' = "pool_end"

ClientsUnchanged == UNCHANGED <<normVars, syncVars, scoreVars, batchVars, aggVars,
                               filterVars, legacyVars>>

\* node seed.js or node update.js is started: a new process with its own pool
StartOperation ==
  /\ clientStep = "idle"
  /\ operationsRun < MaxOperations
  /\ \E op \in {"seedDatabase", "dailyUpdate"} : operation' = op
  /\ operationsRun' = operationsRun + 1
  /\ stage' = 1
  /\ clientStep' = "connect"
  /\ thrown' = FALSE
  /\ clients' = <<>>
  /\ poolEnded' = FALSE
  /\ settled' = "pending"
  /\ ClientsUnchanged

\* const client = await pool.connect()
PoolConnect ==
  /\ clientStep = "connect"
  /\ \E connected \in BOOLEAN :
       IF connected
       THEN /\ clients' = Append(clients, [by |-> CurrentFunction, released |-> 0])
            /\ clientStep' = IF SetsTimeZone(CurrentFunction) THEN "set_time_zone" ELSE "try"
            /\ thrown' = thrown
       ELSE /\ ThrowToScript
            /\ clients' = clients
  /\ UNCHANGED <<operation, stage, poolEnded, settled, operationsRun>>
  /\ ClientsUnchanged

\* await client.query("SET TIME ZONE 'Asia/Kolkata'"), before the try block
SetTimeZone ==
  /\ clientStep = "set_time_zone"
  /\ \E queryFailed \in BOOLEAN :
       IF queryFailed
       THEN ThrowToScript
       ELSE /\ clientStep' = "try"
            /\ thrown' = thrown
  /\ UNCHANGED <<operation, stage, clients, poolEnded, settled, operationsRun>>
  /\ ClientsUnchanged

\* the try block: its queries succeed, or one of them fails
TryBlock ==
  /\ clientStep = "try"
  /\ \E queryFailed \in BOOLEAN :
       IF ~queryFailed
       THEN /\ clientStep' = "finally"
            /\ thrown' = FALSE
       ELSE IF CatchBlockOf(CurrentFunction) = "none"
            THEN /\ clientStep' = "finally"
                 /\ thrown' = TRUE
            ELSE /\ clientStep' = "catch"
                 /\ thrown' = TRUE
  /\ UNCHANGED <<operation, stage, clients, poolEnded, settled, operationsRun>>
  /\ ClientsUnchanged

\* the catch block: checkExistingData returns false; the others rethrow,
\* after a ROLLBACK whose own failure is thrown instead
CatchBlock ==
  /\ clientStep = "catch"
  /\ thrown' = (CatchBlockOf(CurrentFunction) # "swallow")
  /\ clientStep' = "finally"
  /\ UNCHANGED <<operation, stage, clients, poolEnded, settled, operationsRun>>
  /\ ClientsUnchanged

\* the finally block releases the client; then the error goes on to the
\* script, or the script returns early (data found by checkExistingData, an
\* empty stage 1-3 result, no updated fund), or the next function is called
FinallyBlock ==
  /\ clientStep = "finally"
  /\ clients' = ReleasedClients(clients)
  /\ IF thrown
     THEN /\ clientStep' = "pool_end"
          /\ UNCHANGED <<stage, thrown>>
     ELSE \E goesOn \in BOOLEAN, stagesFail \in BOOLEAN :
            LET last == stage = Len(ClientFunctions(operation))
                mayStop == CurrentFunction \in {"checkExistingData", "fetchAndUpdateLatestData"}
                mayFail == CurrentFunction = "checkExistingData"
            IN  /\ goesOn \/ mayStop
                /\ stagesFail => goesOn /\ mayFail
                /\ IF last \/ ~goesOn \/ stagesFail
                   THEN /\ clientStep' = "pool_end"
                        /\ thrown' = stagesFail
                        /\ stage' = stage
                   ELSE /\ clientStep' = "connect"
                        /\ thrown' = FALSE
                        /\ stage' = stage + 1
  /\ UNCHANGED <<operation, poolEnded, settled, operationsRun>>
  /\ ClientsUnchanged

\* finally { await pool.end(); } of the script, after its catch rethrew
PoolEnd ==
  /\ clientStep = "pool_end"
  /\ poolEnded' = TRUE
  /\ settled' = IF thrown THEN "rejected" ELSE "resolved"
  /\ clientStep' = "idle"
  /\ UNCHANGED <<operation, stage, thrown, clients, operationsRun>>
  /\ ClientsUnchanged

----------------------------------------------------------------------------
(* Specification SpecClients: the clients of the two scripts               *)

InitClients ==
  /\ ClientsIdle
  /\ FilterIdle
  /\ LegacyIdle
  /\ fundData = Null
  /\ categoryAverages = Null
  /\ scoreResult = Null
  /\ batchFunds = <<>>
  /\ batchScores = <<>>
  /\ AggregateIdle
  /\ NormalizeIdle
  /\ SyncIdle

NextClients ==
  \/ StartOperation
  \/ PoolConnect
  \/ SetTimeZone
  \/ TryBlock
  \/ CatchBlock
  \/ FinallyBlock
  \/ PoolEnd

SpecClients == InitClients /\ [][NextClients]_vars

----------------------------------------------------------------------------
(* Properties of normalizeFundScores                                       *)

\* the positions of the funds that share the peer group of fund i
Peers(i) == {j \in DOMAIN rawInput : CategoryKey(rawInput[j]) = CategoryKey(rawInput[i])}

Raw(i) == rawInput[i].total_score

First(i) == firstOutput[i].total_score

Final(i) == fundsWithScores[i].total_score

AllNumeric(i) == \A j \in Peers(i) : ~IsNull(Raw(j))

AllNull(i) == \A j \in Peers(i) : IsNull(Raw(j))

\* some fund of the group of i has a positive raw score
HasPositive(i) == \E j \in Peers(i) : ~IsNull(Raw(j)) /\ Raw(j)[1] > 0

\* the group of i is in the standard case: all raw scores numeric, one
\* positive, two of them different
StandardGroup(i) ==
  /\ AllNumeric(i)
  /\ HasPositive(i)
  /\ \E j, k \in Peers(i) : Raw(j) # Raw(k)

\* C1 (as stated): applying normalizeFundScores to its own output yields
\* the same total_score for every fund as the first application.
C1_Idempotent ==
  passes >= 2 => \A i \in DOMAIN fundsWithScores : Final(i) = First(i)

\* C1 (amended): re-application reproduces the first output for every fund
\* whose peer group has a positive maximum raw score; a group whose maximum
\* is <= 0 is set to 50 by the first application and to 100 by every later
\* one.
C1_IdempotentPositiveGroups ==
  passes >= 2 =>
    \A i \in DOMAIN fundsWithScores :
      IF HasPositive(i)
      THEN Final(i) = First(i)
      ELSE First(i) = Num(5000) /\ Final(i) = Num(10000)

C1_Witness ==
  /\ passes = 2
  /\ \E i \in DOMAIN fundsWithScores :
       StandardGroup(i) /\ First(i) = Num(6667) /\ Final(i) = Num(6667)

\* C3: after normalizeFundScores every fund that had a numeric raw score
\* has a total_score in [50, 100].
C3_Bounded ==
  passes >= 1 =>
    \A i \in DOMAIN fundsWithScores :
      ~IsNull(Raw(i)) =>
        /\ ~IsNull(Final(i))
        /\ 5000 <= Final(i)[1]
        /\ Final(i)[1] <= 10000

C3_Witness ==
  /\ passes = 1
  /\ \E i \in DOMAIN fundsWithScores :
       StandardGroup(i) /\ Final(i)[1] > 5000 /\ Final(i)[1] < 10000

\* C4: in the standard case the final score f of a fund with raw score r is
\* (r - min) / (max - min) * 50 + 50 rounded to 2 decimals (half up), min
\* and max being those of the fund's own group: in hundredths,
\* f - 1/2 <= 5000 * (r - min) / (max - min) + 5000 < f + 1/2.  The minimum
\* fund gets 50 and the maximum fund gets 100.
C4_StandardCase ==
  passes >= 1 =>
    \A i \in DOMAIN firstOutput :
      StandardGroup(i) =>
        \E mn, mx \in {Raw(j)[1] : j \in Peers(i)} :
          /\ \A j \in Peers(i) : mn <= Raw(j)[1] /\ Raw(j)[1] <= mx
          /\ LET r == Raw(i)[1]
                 f == First(i)[1]
                 x2 == 2 * (5000 * (r - mn) + 5000 * (mx - mn))
             IN  /\ (2 * f - 1) * (mx - mn) <= x2
                 /\ x2 < (2 * f + 1) * (mx - mn)
                 /\ (r = mn) => f = 5000
                 /\ (r = mx) => f = 10000

C4_Witness ==
  /\ passes = 1
  /\ \E i, j, k \in DOMAIN firstOutput :
       /\ StandardGroup(i)
       /\ {j, k} \subseteq Peers(i)
       /\ Raw(i) = Num(-100) /\ Raw(j) = Num(0) /\ Raw(k) = Num(200)
       /\ First(i) = Num(5000) /\ First(j) = Num(6667) /\ First(k) = Num(10000)

\* C5: when no raw score of a peer group is positive (maximum <= 0), every
\* fund of the group gets the final score 50, whatever its own raw score.
C5_EdgeCase1 ==
  passes >= 1 =>
    \A i \in DOMAIN firstOutput :
      (~AllNull(i) /\ ~HasPositive(i)) => First(i) = Num(5000)

C5_Witness ==
  /\ passes = 1
  /\ \E i, j \in DOMAIN firstOutput :
       /\ j \in Peers(i)
       /\ Raw(i) = Num(-100) /\ Raw(j) = Num(0)
       /\ First(i) = Num(5000) /\ First(j) = Num(5000)

\* C6: when all funds of a peer group have the same raw score and it is
\* positive (a single-fund group included), every fund gets 100.
C6_EdgeCase2 ==
  passes >= 1 =>
    \A i \in DOMAIN firstOutput :
      (/\ ~IsNull(Raw(i))
       /\ Raw(i)[1] > 0
       /\ \A j \in Peers(i) : Raw(j) = Raw(i)) => First(i) = Num(10000)

C6_Witness ==
  /\ passes = 1
  /\ \E i, j \in DOMAIN firstOutput :
       /\ i # j /\ j \in Peers(i)
       /\ Raw(i) = Num(200) /\ \A k \in Peers(i) : Raw(k) = Num(200)
       /\ First(i) = Num(10000) /\ First(j) = Num(10000)
  /\ \E i \in DOMAIN firstOutput :
       Peers(i) = {i} /\ Raw(i) = Num(200) /\ First(i) = Num(10000)

\* C7: a peer group whose funds all have a null raw score keeps its scores
\* absent after normalizeFundScores.
C7_NullGroupExcluded ==
  passes >= 1 =>
    \A i \in DOMAIN fundsWithScores : AllNull(i) => IsNull(Final(i))

\* fund i is not equity-like
NonEquity(i) ==
  ~(rawInput[i].fund_type # "" /\ rawInput[i].fund_type \in {"Equity"})

\* C13: normalizeFundScores groups equity funds by fund_category and puts
\* all funds that are not equity-like into one single peer group, whatever
\* their fund_category.
C13_HybridFundsShareOneGroup ==
  passes >= 1 =>
    \A i, j \in DOMAIN rawInput :
      /\ (NonEquity(i) /\ NonEquity(j)) =>
           \E k \in DOMAIN categories : {i, j} \subseteq categories[k]
      /\ (~NonEquity(i) /\ ~NonEquity(j)) =>
           ((rawInput[i].fund_category = rawInput[j].fund_category)
              <=> \E k \in DOMAIN categories : {i, j} \subseteq categories[k])

\* C14: normalizeFundScores places every fund in exactly one peer group, a
\* fund with unset fund_category in 'equity_other' (equity) or 'unknown'
\* (others), and returns the funds it was given: same length, same order,
\* fund_type and fund_category untouched.
C14_EveryFundInOneGroup ==
  passes >= 1 =>
    /\ \A i \in DOMAIN rawInput :
         /\ Cardinality({k \in DOMAIN categories : i \in categories[k]}) = 1
         /\ \E k \in DOMAIN categories :
              /\ i \in categories[k]
              /\ k = IF rawInput[i].fund_category # "" THEN rawInput[i].fund_category
                     ELSE IF NonEquity(i) THEN "unknown" ELSE "equity_other"
    /\ \A k \in DOMAIN categories : categories[k] \subseteq DOMAIN rawInput
    /\ DOMAIN fundsWithScores = DOMAIN rawInput
    /\ \A i \in DOMAIN rawInput :
         /\ fundsWithScores[i].fund_type = rawInput[i].fund_type
         /\ fundsWithScores[i].fund_category = rawInput[i].fund_category

C14_Witness ==
  /\ passes = 1
  /\ Len(fundsWithScores) = 3
  /\ DOMAIN categories = {"equity_other", "unknown", "Large Cap Fund"}
  /\ \E i, j \in DOMAIN rawInput :
       /\ categories["equity_other"] = {i} /\ rawInput[i].fund_type = "Equity"
       /\ categories["unknown"] = {j} /\ rawInput[j].fund_type = ""

----------------------------------------------------------------------------
(* Properties of calculateFundScore                                        *)

\* the fund is compared with its category: categoryAverages is given and
\* has an entry for the fund's category
OutperformanceMode ==
  /\ categoryAverages # Null
  /\ \E c \in DOMAIN categoryAverages[1] : c = fundData.fund_category

CategoryValue(p) == categoryAverages[1][fundData.fund_category][p]

\* a period is usable when the fund return is available and, in
\* outperformance mode, the category average too
Usable(p) ==
  /\ fundData[p] # Null
  /\ OutperformanceMode => CategoryValue(p) # Null

UsablePeriods == {p \in PeriodSet : Usable(p)}

\* C8: a fund with no usable period gets total_score exactly 0.
C8_NoUsablePeriodScoresZero ==
  (scoreResult # Null /\ UsablePeriods = {}) => scoreResult[1].total_score = Num(0)

C8_Witness ==
  /\ scoreResult # Null
  /\ OutperformanceMode
  /\ UsablePeriods = {}
  /\ \E p \in PeriodSet : fundData[p] # Null
  /\ \E p \in PeriodSet : CategoryValue(p) # Null
  /\ scoreResult[1].total_score = Num(0)

UsableWeight(p, weight) == IF Usable(p) THEN weight ELSE 0

UsableWeightTotal ==
  UsableWeight("returns_1y", 3499) + UsableWeight("returns_3y", 3999)
    + UsableWeight("returns_5y", 2499) + UsableWeight("returns_1w", 3)

\* value * baseWeight / totalAvailableWeight of a usable period, 0 otherwise
Contribution(p, weight) ==
  IF Usable(p)
  THEN RMul(scoreResult[1].values[p][1], <<weight, UsableWeightTotal>>)
  ELSE <<0, 1>>

ExpectedRawScore ==
  RAdd(RAdd(Contribution("returns_1y", 3499), Contribution("returns_3y", 3999)),
       RAdd(Contribution("returns_5y", 2499), Contribution("returns_1w", 3)))

\* C10: with at least one usable period the raw score is the sum over the
\* usable periods of value * baseWeight / totalAvailableWeight, the total
\* being taken over the usable periods only; unusable periods have no
\* value; in absolute mode the value is the fund return itself; the
\* returned total_score is the raw score rounded to 2 decimals (half up).
C10_WeightedScore ==
  (scoreResult # Null /\ UsablePeriods # {}) =>
    LET r == scoreResult[1].rawScore
        t == scoreResult[1].total_score[1]
    IN  /\ \A p \in PeriodSet :
             /\ ~Usable(p) => scoreResult[1].values[p] = Null
             /\ (Usable(p) /\ ~OutperformanceMode) =>
                  scoreResult[1].values[p] = Num(<<fundData[p][1], 1>>)
        /\ r = ExpectedRawScore
        /\ (2 * t - 1) * r[2] <= 200 * r[1]
        /\ 200 * r[1] < (2 * t + 1) * r[2]

C10_Witness ==
  /\ scoreResult # Null
  /\ OutperformanceMode
  /\ Cardinality(UsablePeriods) = 2
  /\ \E p \in PeriodSet : fundData[p] # Null /\ ~Usable(p)
  /\ (100 * scoreResult[1].rawScore[1]) % scoreResult[1].rawScore[2] # 0
  /\ scoreResult[1].rawScore = ExpectedRawScore

\* categoryAverages is absent, or holds no entry for the fund's category
NoCategoryAverage ==
  \/ categoryAverages = Null
  \/ fundData.fund_category \notin DOMAIN categoryAverages[1]

\* C11: calculateRawScore scores in absolute mode (the raw returns of the
\* available periods, untransformed) exactly when categoryAverages is absent
\* or has no entry for the fund's category; otherwise it scores in
\* outperformance mode, where a period has a value exactly when both the
\* fund return and the category average of the period are available.
C11_ModeSelection ==
  scoreResult # Null =>
    /\ scoreResult[1].outperformance = ~NoCategoryAverage
    /\ NoCategoryAverage =>
         \A p \in PeriodSet :
           scoreResult[1].values[p] =
             IF fundData[p] # Null THEN Num(<<fundData[p][1], 1>>) ELSE Null
    /\ ~NoCategoryAverage =>
         \A p \in PeriodSet :
           (scoreResult[1].values[p] # Null)
             <=> (fundData[p] # Null /\ CategoryValue(p) # Null)

C11_Witness ==
  /\ scoreResult # Null
  /\ categoryAverages # Null
  /\ DOMAIN categoryAverages[1] = {"Large Cap Fund"}
  /\ fundData.fund_category = "Aggressive Hybrid Fund"
  /\ ~scoreResult[1].outperformance
  /\ fundData.returns_1y = Num(10) /\ scoreResult[1].values.returns_1y = Num(<<10, 1>>)
  /\ fundData.returns_3y = Null /\ scoreResult[1].values.returns_3y = Null

\* a return value that is present but is not a number: a string that is
\* blank or is not the text of a number
NonNumeric(v) ==
  /\ IsString(v)
  /\ \/ TrimStart(v[2]) = <<>>
     \/ StringToNumber(v[2]) = NaN

\* the fund with every non-numeric return value replaced by null, and
\* every numeric string by its value
WithoutNonNumeric(fund) ==
  [k \in DOMAIN fund |->
     IF k \in PeriodSet /\ IsString(fund[k])
     THEN (IF NonNumeric(fund[k]) THEN Null ELSE Num(StringToNumber(fund[k][2])[1]))
     ELSE fund[k]]

\* C15: a return value that is present but non-numeric is treated as an
\* absent period: every fund of the list gets a numeric total_score, the
\* one of the same fund with its non-numeric values absent, whatever the
\* other funds of the list hold.
C15_NonNumericTreatedAsAbsent ==
  \A i \in DOMAIN batchScores :
    /\ batchScores[i] # NaN
    /\ batchScores[i] = calculateFundScore(WithoutNonNumeric(batchFunds[i]), categoryAverages)

----------------------------------------------------------------------------
(* Properties of the category averages aggregator                          *)

\* the positions of the response that hold a category of the blended group
HybridInput ==
  {k \in DOMAIN responseData :
     responseData[k].category_name \in
       {"Aggressive Hybrid Fund", "Dynamic Asset Allocation or Balanced Advantage",
        "Multi Asset Allocation"}}

\* the positions of the response that hold a category of the primary group
EquityInput ==
  {k \in DOMAIN responseData :
     responseData[k].category_name \in
       {"Large Cap Fund", "Mid Cap Fund", "Small Cap Fund", "Flexi Cap Fund", "ELSS"}}

\* the hybrid categories that report a value for the field
Reported(field) == {k \in HybridInput : responseData[k][field] # Null}

RECURSIVE SumReported(_, _)
SumReported(S, field) ==
  IF S = {} THEN <<0, 1>>
  ELSE LET k == CHOOSE k \in S : TRUE
       IN  RAdd(responseData[k][field][1], SumReported(S \ {k}, field))

\* the positions of the output that hold the blended category
HybridOutput ==
  {k \in DOMAIN processedCategories[1] :
     processedCategories[1][k].category_name = "Hybrid"}

\* C16: for each period the blended "Hybrid" value is the arithmetic mean
\* of the values the hybrid categories report, taken over the non-null
\* values only: [10, null, 20] gives 15.
C16_BlendIsMeanOfReported ==
  processedCategories # Null =>
    \A k \in HybridOutput : \A t \in DOMAIN ReturnField :
      LET reported == Reported(ReturnField[t])
          blend == processedCategories[1][k][t]
      IN  reported # {} =>
            /\ blend # Null
            /\ RMul(blend[1], <<Cardinality(reported), 1>>)
                 = SumReported(reported, ReturnField[t])
            /\ (/\ Cardinality(HybridInput) = 3
                /\ {responseData[h].year_1 : h \in HybridInput}
                     = {Null, Num(<<10, 1>>), Num(<<20, 1>>)}
                /\ t = "returns_1y") => blend = Num(<<15, 1>>)

C16_Witness ==
  /\ processedCategories # Null
  /\ Cardinality(HybridInput) = 3
  /\ {responseData[h].year_1 : h \in HybridInput} = {Null, Num(<<10, 1>>), Num(<<20, 1>>)}
  /\ \E k \in HybridOutput : processedCategories[1][k].returns_1y = Num(<<15, 1>>)

\* C17: when no hybrid category reports a value for a period, the blended
\* category has no value for that period.
C17_UnreportedPeriodOmitted ==
  processedCategories # Null =>
    \A k \in HybridOutput : \A t \in DOMAIN ReturnField :
      Reported(ReturnField[t]) = {} => processedCategories[1][k][t] = Null

\* the output rows of the primary group are the allow-listed primary
\* categories of the response, in order and with their values, and no row
\* has a name outside "Hybrid" and the primary allow-list
PrimaryUnchanged ==
  LET out == processedCategories[1]
      kept == {k \in DOMAIN out : k \notin HybridOutput}
  IN  /\ Cardinality(kept) = Cardinality(EquityInput)
      /\ \A k \in kept :
           \E i \in EquityInput :
             /\ Cardinality({j \in EquityInput : j < i}) = k - 1
             /\ out[k].category_name = responseData[i].category_name
             /\ out[k].returns_1w = responseData[i].week_1
             /\ out[k].returns_1y = responseData[i].year_1
             /\ out[k].returns_3y = responseData[i].year_3
             /\ out[k].returns_5y = responseData[i].year_5
             /\ out[k].returns_inception = responseData[i].inception

\* C18 (as stated): for any response the output is the allow-listed primary
\* categories unchanged plus exactly one blended category named "Hybrid".
C18_PrimaryPlusOneBlend ==
  processedCategories # Null =>
    /\ PrimaryUnchanged
    /\ Cardinality(HybridOutput) = 1

\* C18 (amended): the output is the allow-listed primary categories
\* unchanged, followed by exactly one blended category named "Hybrid" when
\* the response holds at least one hybrid category, and by none otherwise.
C18_PrimaryPlusBlendIfAny ==
  processedCategories # Null =>
    /\ PrimaryUnchanged
    /\ Cardinality(HybridOutput) = IF HybridInput # {} THEN 1 ELSE 0
    /\ HybridOutput \subseteq {Len(processedCategories[1])}

C18_Witness ==
  /\ processedCategories # Null
  /\ Len(responseData) = 6
  /\ Len(processedCategories[1]) = 3
  /\ processedCategories[1][1].category_name = "Large Cap Fund"
  /\ processedCategories[1][1].returns_1y = Num(<<10, 1>>)
  /\ processedCategories[1][2].category_name = "Mid Cap Fund"
  /\ processedCategories[1][3].category_name = "Hybrid"

----------------------------------------------------------------------------
(* Properties of the seed and daily update runs                            *)

\* C2: whenever normalization runs during seeding or a daily update, it is
\* given every fund of the store, and every total_score it is given is a
\* raw score computed in that same run; never a subset, never a mix of raw
\* and already normalized scores.
C2_NormalizesFreshRawScoresOfAllFunds ==
  lastNormalization # Null =>
    LET call == lastNormalization[1]
    IN  /\ DOMAIN call.fed = call.store
        /\ \A c \in DOMAIN call.fed :
             /\ call.fed[c].origin = "raw"
             /\ call.fed[c].scored_run = call.run

\* the score of a row in outperformance mode against the stored "Hybrid" row
HybridOutperformanceScore(row) ==
  RoundScore(WeightedScore(
    OutperformanceReturns(FundDataForScoring(row), CategoryAveragesForScoring[1]["Hybrid"])))

\* C12: a fund of one of the three hybrid categories is scored in
\* outperformance mode against the blended "Hybrid" average of the store:
\* whenever the store holds the "Hybrid" row, the raw score of such a fund
\* is its weighted outperformance over that row.
C12_HybridScoredAgainstBlend ==
  \A c \in DOMAIN funds :
    (/\ funds[c].fund_category \in allowedHybridCategories
     /\ funds[c].origin = "raw"
     /\ revision = "current"
     /\ "Hybrid" \in DOMAIN CategoryAveragesForScoring[1])
      => funds[c].total_score = Num(HybridOutperformanceScore(funds[c]))

\* the names of the rows a table holds
CategoryRowNames(table) == {table[i].category_name : i \in DOMAIN table}

\* the row of the given name in a table
CategoryRowNamed(table, name) ==
  table[CHOOSE i \in DOMAIN table : table[i].category_name = name]

\* C19: category_averages holds at most one row per category name, and one
\* run's write is all or nothing: after a failed write the table is what it
\* was before the run, and after a successful one every category the run
\* produced is the row of its name (replacing the earlier row of that name)
\* while the rows of the other names stay as they were.
C19_CategoryUpsertAllOrNothing ==
  /\ \A i, j \in DOMAIN category_averages :
       category_averages[i].category_name = category_averages[j].category_name => i = j
  /\ lastCategoryWrite # Null =>
       LET write    == lastCategoryWrite[1]
           produced == CategoryRowNames(write.rows)
       IN  IF write.failed
           THEN category_averages = write.before
           ELSE /\ CategoryRowNames(category_averages) =
                     CategoryRowNames(write.before) \cup produced
                /\ \A n \in CategoryRowNames(category_averages) :
                     CategoryRowNamed(category_averages, n) =
                       IF n \in produced
                       THEN StoredCategoryRow(CategoryRowNamed(write.rows, n))
                       ELSE CategoryRowNamed(write.before, n)

\* a run's write replaced the stored row of one name and left the row of
\* another name, written by an earlier run, as it was
C19_Witness ==
  /\ lastCategoryWrite # Null
  /\ ~lastCategoryWrite[1].failed
  /\ Len(lastCategoryWrite[1].rows) = 1
  /\ Len(lastCategoryWrite[1].before) = 2
  /\ Len(category_averages) = 2
  /\ \E i \in DOMAIN category_averages :
       /\ category_averages[i] = StoredCategoryRow(lastCategoryWrite[1].rows[1])
       /\ category_averages[i] # lastCategoryWrite[1].before[i]

\* the codes of the funds of one logged batch
BatchCodes(entry) == {activeFunds[j].code : j \in entry.first..entry.last}

\* C20: in the batch loop of the daily update, when a write fails while
\* batch k is processed, the funds table is what it was before batch k
\* (the writes of batch k are undone and the writes of the batches committed
\* before k stay), no later batch changes what a committed batch wrote, and
\* the loop goes on: every batch up to the loop position was processed,
\* whatever failed before it.
C20_FailedBatchRolledBack ==
  /\ \A k \in DOMAIN batchLog :
       /\ batchLog[k].failed => batchLog[k].after = batchLog[k].before
       /\ k > 1 => batchLog[k].before = batchLog[k - 1].after
       /\ \A l \in 1..(k - 1) : \A c \in BatchCodes(batchLog[l]) :
            batchLog[k].after[c] = batchLog[l].after[c]
  /\ batchLog # <<>> => funds = batchLog[Len(batchLog)].after
  /\ pc = "upd_fetch" =>
       /\ batchStart = Len(batchLog) * batchSize
       /\ \A k \in DOMAIN batchLog : batchLog[k].first = (k - 1) * batchSize + 1

\* three batches were processed: the first committed a write, the second
\* failed after it had written a row, the third committed a write
C20_Witness ==
  /\ pc = "upd_fetch"
  /\ Len(batchLog) = 3
  /\ ~batchLog[1].failed /\ batchLog[1].after # batchLog[1].before
  /\ batchLog[2].failed /\ batchLog[2].writes > 0
  /\ ~batchLog[3].failed /\ batchLog[3].after # batchLog[3].before
  /\ batchStart >= Len(activeFunds)

\* the funds of the peer group of fund i alone, in list order
PeersOnly(i) ==
  SelectSeq(rawInput, LAMBDA fund : CategoryKey(fund) = CategoryKey(rawInput[i]))

\* the position of fund i in PeersOnly(i)
PeerRank(i) == Cardinality({j \in Peers(i) : j <= i})

\* C30: normalizeFundScores keeps the ranking inside a peer group and keeps
\* the groups independent: of two funds of one group the one with the lower
\* or equal raw score (a missing score counting as 0) gets the lower or
\* equal normalized score, and the normalized score of a fund is the one it
\* gets when its peer group is normalized alone.
C30_RankingKeptGroupsIndependent ==
  passes >= 1 =>
    \A i \in DOMAIN rawInput :
      /\ \A j \in Peers(i) :
           ToNumber(Raw(i)) <= ToNumber(Raw(j)) => First(i)[1] <= First(j)[1]
      /\ First(i) = normalizeFundScores(PeersOnly(i))[PeerRank(i)].total_score

\* a list of two peer groups was normalized: one group holds two different
\* raw scores, which were ranked, and the other group was mapped to 50
C30_Witness ==
  /\ passes >= 1
  /\ \E i, j, k \in DOMAIN rawInput :
       /\ j \in Peers(i) /\ k \notin Peers(i)
       /\ Raw(i) = Num(0) /\ Raw(j) = Num(200)
       /\ First(i)[1] < First(j)[1]
       /\ Raw(k) = Num(-100) /\ First(k) = Num(EdgeCase1Score)

\* the predicates of the eligibility filter, each on its own
LumpSumOrSipAvailable(fund) == fund.lump_available = "Y" \/ fund.sip_available = "Y"

DirectPlan(fund) == fund.direct = "Y"

GrowthPlan(fund) == fund.plan = "GROWTH"

OpenEnded(fund) == fund.maturity_type = "Open Ended"

RatingNotExcluded(fund) == fund.fund_rating \notin {Num(1), Num(2)}

AumAtLeastTenCrores(fund) == ~IsNull(fund.aum) /\ fund.aum[1] >= 100

NameAndCodePresent(fund) ==
  ~IsNull(fund.name) /\ fund.name[2] # <<>> /\ fund.code # ""

NameWithoutNifty(fund) ==
  ~\E k \in 1..Len(fund.name[2]) :
     /\ k + 4 <= Len(fund.name[2])
     /\ fund.name[2][k] \in {"n", "N"} /\ fund.name[2][k + 1] \in {"i", "I"}
     /\ fund.name[2][k + 2] \in {"f", "F"} /\ fund.name[2][k + 3] \in {"t", "T"}
     /\ fund.name[2][k + 4] \in {"y", "Y"}

AllPredicatesPass(fund) ==
  /\ LumpSumOrSipAvailable(fund) /\ DirectPlan(fund) /\ GrowthPlan(fund)
  /\ OpenEnded(fund) /\ RatingNotExcluded(fund) /\ AumAtLeastTenCrores(fund)
  /\ NameAndCodePresent(fund) /\ NameWithoutNifty(fund)

\* C23: applyAdvancedFilters keeps a fund if and only if every predicate
\* passes (lump-sum or SIP available, direct plan, growth plan, open-ended,
\* rating not excluded, AUM of at least 10 crores, name and code present,
\* name without 'nifty'), whatever came before the fund in the list: once
\* the loop is over the funds kept are the funds of the list that pass all
\* predicates, in list order, and every fund was tallied once.
C23_KeptIffAllPredicatesPass ==
  (fundDetails # <<>> /\ filterIndex = Len(fundDetails)) =>
    /\ passedFunds = SelectSeq(fundDetails, AllPredicatesPass)
    /\ filterStats["passed"] = Len(passedFunds)

\* the periods of the legacy score that have data
LegacyAvailable == {p \in DOMAIN LegacyWeights : ~IsNull(legacyReturns[p])}

\* C24: the legacy weighted score redistributes the weights over the
\* periods that have data: a fund whose every available period has the same
\* return r gets the score r, whichever periods are missing.
C24_AgeAgnosticLegacyScore ==
  (legacyResult # Null /\ LegacyAvailable # {}) =>
    \A r \in {-5, 10} :
      (\A p \in LegacyAvailable : legacyReturns[p] = Num(r))
        => legacyResult[1].score = 100 * r

\* C21: a failure while one fund is scored or stored touches that fund
\* only: once the per-fund loop of seeding (processAndStoreFunds) or of the
\* daily update (calculateRawScoresForUpdatedFunds) is over, every fund of
\* the loop that did not fail itself has its result committed, a row with
\* the raw score of this run.
C21_FailureConfinedToItsFund ==
  (lastFundWrites # Null /\ pc \in {"seed_score", "upd_normalize"}) =>
    \A c \in DOMAIN lastFundWrites[1] :
      lastFundWrites[1][c] = "none" =>
        /\ c \in DOMAIN funds
        /\ funds[c].origin = "raw"
        /\ funds[c].scored_run = runs

\* C22: a daily update overwrites the stored data of a fund only when the
\* fetched data is new, its NAV date being later than the stored NAV date (or
\* no NAV date being stored); a fund whose fetched NAV date is the same,
\* older, or not known to be newer is skipped and its row left as it was.
C22_OverwrittenOnlyWhenNewer ==
  \A k \in DOMAIN batchLog : \A j \in batchLog[k].first..batchLog[k].last :
    LET c      == activeFunds[j].code
        stored == batchLog[k].before[c].current_nav_date
        result == batchLog[k].results[j]
    IN  batchLog[k].after[c] # batchLog[k].before[c] =>
          /\ result # Null
          /\ ~IsNull(result[1].nav_date)
          /\ IsNull(stored) \/ result[1].nav_date[1] > stored[1]

\* the batch loop is over and fetchAndUpdateLatestData is about to return
FetchLoopOver == pc = "upd_fetch" /\ batchStart >= Len(activeFunds)

\* C25: fetchAndUpdateLatestData accounts for every fund exactly once: when
\* it returns, the number of updated funds plus the skipped and the failed
\* counts is the number of active funds it was given, whatever fetches and
\* batch writes failed, and every fund of the updated list has its update
\* committed in the store.
C25_EveryFundAccountedOnce ==
  FetchLoopOver =>
    /\ Len(updatedFunds) + skippedFunds + failedFunds = Len(activeFunds)
    /\ \A n \in DOMAIN updatedFunds :
         \E k \in DOMAIN batchLog :
           /\ updatedFunds[n] \in BatchCodes(batchLog[k])
           /\ ~batchLog[k].failed
           /\ funds[updatedFunds[n]] # batchLog[k].before[updatedFunds[n]]

\* the last run was a seeding that went through all its stages
SeedCompleted ==
  ~IsNull(lastRun) /\ lastRun[1].kind = "seed" /\ lastRun[1].outcome = "completed"

\* the funds the last normalization wrote a score for and that are gone
RemovedAfterNormalization ==
  IF IsNull(lastNormalization) THEN {}
  ELSE {c \in lastNormalization[1].store : c \notin DOMAIN funds}

\* C26: after seedDatabase went through all its stages no stored fund has a
\* total_score below 70 (so none is left of a group normalized to 50), and
\* the removal starts only when every stored fund carries a score that this
\* run computed and normalized.
C26_NoFundBelowSeventyAfterSeed ==
  /\ SeedCompleted =>
       \A c \in DOMAIN funds :
         \/ IsNull(funds[c].total_score)
         \/ funds[c].total_score = NaN
         \/ funds[c].total_score[1] >= 7000
  /\ pc = "seed_prune" =>
       /\ ~IsNull(lastNormalization)
       /\ lastNormalization[1].run = runs
       /\ \A c \in DOMAIN funds :
            /\ c \in DOMAIN lastNormalization[1].fed
            /\ funds[c].origin = "normalized"
            /\ funds[c].scored_run = runs

\* a seeding completed that removed a fund whose raw score was not positive
\* (its group was normalized to 50) and kept another fund
C26_Witness ==
  /\ SeedCompleted
  /\ DOMAIN funds # {}
  /\ \E c \in RemovedAfterNormalization :
       LET raw == lastNormalization[1].fed[c].total_score
       IN  ~IsNull(raw) /\ raw # NaN /\ raw[1] <= 0

\* the last run was a seeding started on a store whose funds table held a fund
SeedOnPopulatedStore ==
  ~IsNull(lastRun) /\ lastRun[1].kind = "seed" /\ DOMAIN lastRun[1].funds # {}

\* C27: seedDatabase started on a store whose funds table holds a fund
\* returns at once and writes nothing: the funds and the category averages
\* stay as they were when it started; it goes on to seed only when the funds
\* table is missing or empty.
C27_NoWriteOnPopulatedStore ==
  SeedOnPopulatedStore =>
    /\ lastRun[1].outcome = "skipped"
    /\ pc = "idle"
    /\ funds = lastRun[1].funds
    /\ category_averages = lastRun[1].category_averages

\* the last run was a daily update whose fetch loop returned no updated fund
NoNewData ==
  ~IsNull(lastRun) /\ lastRun[1].kind = "update" /\ lastRun[1].outcome = "no_new_data"

\* C28: a daily update whose updated list is empty ends there: no raw score
\* is computed, no normalization runs, and every fund has the total_score it
\* had when the run started, whatever the refresh of the category averages
\* wrote at the start of the run.
C28_NoRescoringWithoutNewData ==
  NoNewData =>
    /\ pc = "idle"
    /\ lastNormalization = lastRun[1].lastNormalization
    /\ lastFundWrites = Null
    /\ DOMAIN funds = DOMAIN lastRun[1].funds
    /\ \A c \in DOMAIN funds :
         /\ funds[c].total_score = lastRun[1].funds[c].total_score
         /\ funds[c].scored_run = lastRun[1].funds[c].scored_run

\* an update without new data ended on a store of scored funds after its
\* refresh changed the category averages
C28_Witness ==
  /\ NoNewData
  /\ revision = "current"
  /\ category_averages # lastRun[1].category_averages
  /\ \E c \in DOMAIN funds : ~IsNull(funds[c].total_score)

\* the script is over: its promise has settled
OperationOver == operation # "none" /\ settled # "pending"

\* C29: every client taken from the pool by seedDatabase or dailyUpdate is
\* released exactly once on every path (never twice, and once by the time
\* the script is over, whatever query failed, SET TIME ZONE included), and
\* the pool is ended when the script finishes or fails.
C29_ClientsReleasedOncePoolEnded ==
  /\ \A n \in DOMAIN clients : clients[n].released <= 1
  /\ OperationOver =>
       /\ poolEnded
       /\ \A n \in DOMAIN clients : clients[n].released = 1

====
